---- MODULE Spec2Model ----
(***************************************************************************)
(* Topology-driven collector lifecycle of the O&M module: the collector    *)
(* manager (CollectorManager), the orchestrator tick                        *)
(* (UpdatedMetricsOrchestrator), the health prober (HealthCheckCollector)   *)
(* and the resource sampler (ContainerMetricsCollector).                    *)
(***************************************************************************)
EXTENDS Integers, Sequences, FiniteSets, TLC

VARIABLES
    cmTopology,     \* CollectorManager.topology (Nil before the first pass)
    collectors,     \* CollectorManager.collectors: name -> [nfType, port, id]
    running,        \* CollectorManager.running: name -> id of the cancel func
    instances,      \* every collector ever started, by id: its context and server
    cmLastCall,     \* the last CollectorManager method that returned
    cmRepeated,     \* that call was UpdateTopology with the topology of the call before it
    hccTopology,    \* HealthCheckCollector.topology
    checkConfigs,   \* HealthCheckCollector.checkConfigs: name -> HealthCheckConfig
    healthCache,    \* HealthCheckCollector.healthCache: name -> ComponentHealth
    probed,         \* name -> the results of its probes so far, oldest first
    cmcTopology,    \* ContainerMetricsCollector.topology
    statsCache,     \* ContainerMetricsCollector.statsCache: name -> ContainerStats
    lastCPUStats,   \* ContainerMetricsCollector.lastCPUStats: name -> cpuStats
    lastSample,     \* name -> the snapshot the last sweep stored statistics from
    lastTried,      \* name -> what the runtime had for it during the last sweep
    lastTopology,   \* UpdatedMetricsOrchestrator.lastTopology
    registry,       \* UpdatedMetricsOrchestrator.registry.Targets, by job name
    configFile,     \* the jobs of the scrape configuration last written, a bag
    loopVarPerIteration, \* whether the build gives each loop iteration its own variable
    ctxDone,        \* the root context has been cancelled
    calls,          \* the periodic loops: where each is and the network call it waits for
    pc,             \* where UpdatedMetricsOrchestrator.Start is
    containers,     \* the container runtime: name -> "absent", "stopped" or "running"
    changes,        \* how many times a container has changed state
    scanned,        \* parsePrometheusFormat: the lines the scanner has yielded
    currentMetric,  \* parsePrometheusFormat: the open template
    metrics,        \* parsePrometheusFormat: the metrics appended so far
    panicked,       \* a goroutine of the collector has panicked
    labelled,       \* parseLabels: the last argument and result, Nil before
    realMetrics,    \* RealOpen5GSCollector.realMetrics: name -> GaugeVec
    realCounters,   \* RealOpen5GSCollector.realCounters: name -> CounterVec
    lastUpdate,     \* RealOpen5GSCollector.lastUpdate, 0 for the zero time
    lastFetchError, \* RealOpen5GSCollector.lastFetchError, "" for nil
    response,       \* what the last GET of fetchAndParseMetrics came back with
    now,            \* the clock, in poll intervals of the collector
    goroutines,     \* the statement each goroutine of the two collectors is at
    rcoMu,          \* RealCollectorOrchestrator.mu: its writer and its readers
    rcoStatus,      \* RealCollectorOrchestrator.status
    rcoCtxDone,     \* RealCollectorOrchestrator.ctx is cancelled
    rcoCalls,       \* the calls of Start, Stop and WaitForHealthy: where each is
    rcmTopology,    \* RealCollectorManager.topology
    rcmCollectors,  \* RealCollectorManager.collectors: name -> collector
    rcmStarted      \* the collectors StartAll has launched a goroutine for

cmVars == <<cmTopology, collectors, running, instances, cmLastCall, cmRepeated>>
hccVars == <<hccTopology, checkConfigs, healthCache, probed>>
cmcVars == <<cmcTopology, statsCache, lastCPUStats, lastSample, lastTried>>
umoVars == <<lastTopology, registry, configFile, loopVarPerIteration, pc>>
envVars == <<containers, changes>>

parseVars == <<scanned, currentMetric, metrics, labelled>>
rocVars == <<parseVars, panicked, realMetrics, realCounters, lastUpdate, lastFetchError,
            response, now>>

ctxVars == <<ctxDone, calls>>

rcoVars == <<rcoMu, rcoStatus, rcoCtxDone, rcoCalls>>

rcmVars == <<rcmTopology, rcmCollectors, rcmStarted>>

goVars == <<goroutines, rcoVars, rcmVars>>

vars == <<cmVars, hccVars, cmcVars, umoVars, envVars, rocVars, ctxVars, goVars>>

-----------------------------------------------------------------------------
(* Bounds *)

\* collectors started over one run
MaxInstances == 3

\* probes of one component
MaxChecks == 3

\* the largest reading of a cumulative CPU counter
MaxCounter == 2

\* state changes of the containers over one run
MaxChanges == 3

\* lines of one response body
MaxLines == 3

\* fetch cycles of one collector
MaxFetches == 3

\* poll intervals the clock of a collector runs for
MaxClock == 8
MaxWait == 3
\* the longest timeout WaitForHealthy is called with, in ticks of its ticker
MaxTimeout == 3

-----------------------------------------------------------------------------
(* strings.Contains / strings.ToLower over Go strings *)

Contains(s, substr) ==
    \E i \in 1..(Len(s) - Len(substr) + 1) : SubSeq(s, i, i + Len(substr) - 1) = substr

UpperCase == <<"A","B","C","D","E","F","G","H","I","J","K","L","M",
               "N","O","P","Q","R","S","T","U","V","W","X","Y","Z">>
LowerCase == <<"a","b","c","d","e","f","g","h","i","j","k","l","m",
               "n","o","p","q","r","s","t","u","v","w","x","y","z">>

LowerChar(c) ==
    IF \E k \in 1..26 : UpperCase[k] = c
    THEN LowerCase[CHOOSE k \in 1..26 : UpperCase[k] = c]
    ELSE c

RECURSIVE ToLower(_)
ToLower(s) ==
    IF Len(s) = 0 THEN ""
    ELSE LowerChar(SubSeq(s, 1, 1)) \o ToLower(SubSeq(s, 2, Len(s)))

\* strings.HasPrefix
HasPrefix(s, prefix) ==
    Len(s) >= Len(prefix) /\ SubSeq(s, 1, Len(prefix)) = prefix

\* strings.Index for a one-character separator: the position, from 1, of its
\* first occurrence, 0 when there is none
Index(s, sep) ==
    IF \E i \in 1..Len(s) : SubSeq(s, i, i) = sep
    THEN CHOOSE i \in 1..Len(s) :
             /\ SubSeq(s, i, i) = sep
             /\ \A j \in 1..(i - 1) : SubSeq(s, j, j) # sep
    ELSE 0

RECURSIVE TrimLeft(_, _)
TrimLeft(s, c) ==
    IF Len(s) > 0 /\ SubSeq(s, 1, 1) = c THEN TrimLeft(SubSeq(s, 2, Len(s)), c) ELSE s

RECURSIVE TrimRight(_, _)
TrimRight(s, c) ==
    IF Len(s) > 0 /\ SubSeq(s, Len(s), Len(s)) = c
    THEN TrimRight(SubSeq(s, 1, Len(s) - 1), c) ELSE s

\* strings.Trim for a one-character cutset
Trim(s, c) == TrimRight(TrimLeft(s, c), c)

\* strings.TrimSpace; the only white space in the lines of the model is " "
TrimSpace(s) == Trim(s, " ")

\* strings.SplitN(s, sep, 2)
SplitN2(s, sep) ==
    LET i == Index(s, sep)
    IN  IF i = 0 THEN <<s>>
        ELSE <<SubSeq(s, 1, i - 1), SubSeq(s, i + 1, Len(s))>>

\* strings.Fields
RECURSIVE Fields(_)
Fields(s) ==
    LET t == TrimLeft(s, " ")
        i == Index(t, " ")
    IN  IF t = "" THEN <<>>
        ELSE IF i = 0 THEN <<t>>
        ELSE <<SubSeq(t, 1, i - 1)>> \o Fields(SubSeq(t, i + 1, Len(t)))

Digits == <<"0", "1", "2", "3", "4", "5", "6", "7", "8", "9">>

IsDigit(c) == \E d \in 1..10 : Digits[d] = c

RECURSIVE DecimalValue(_)
DecimalValue(s) ==
    IF s = "" THEN 0
    ELSE 10 * DecimalValue(SubSeq(s, 1, Len(s) - 1))
             + (CHOOSE d \in 1..10 : Digits[d] = SubSeq(s, Len(s), Len(s))) - 1

\* strconv.ParseFloat on the values of the model's lines: a run of decimal
\* digits is its number, any other text an error
ParseFloat(s) ==
    IF s # "" /\ \A i \in 1..Len(s) : IsDigit(SubSeq(s, i, i))
    THEN [ok |-> TRUE, value |-> DecimalValue(s)]
    ELSE [ok |-> FALSE, value |-> 0]

-----------------------------------------------------------------------------
(* discovery: components and topologies *)

\* the container names of the model
CMNames == {"amf", "amf2", "smf", "webui"}
ServerNames == {"amf", "amf2"}
OrchNames == {"amf", "smf"}

\* the periodic loops: startMetricsCollection of a collector,
\* performHealthChecksPeriodically of the prober and the ticker loop of the
\* sampler
LoopNames == {"fetch", "probe", "sample"}
HealthNames == {"amf", "upf", "webui"}
SamplerNames == {"amf"}
PairNames == {"amf2", "upf"}
RcmNames == {"amf", "amf2", "smf"}
AllNames == CMNames \cup ServerNames \cup OrchNames \cup HealthNames \cup SamplerNames
                \cup PairNames

\* the nil *NetworkTopology
Nil == [nil |-> TRUE]

\* the name -> type table of getComponentType
componentTypes ==
    [mme |-> "4G-Control-Plane", hss |-> "4G-Database", sgwc |-> "4G-Control-Plane",
     sgwu |-> "4G-User-Plane", pcrf |-> "4G-Policy",
     amf |-> "5G-Control-Plane", smf |-> "5G-Control-Plane", upf |-> "5G-User-Plane",
     nrf |-> "5G-Service-Discovery", udm |-> "5G-User-Management", udr |-> "5G-Database",
     ausf |-> "5G-Authentication", pcf |-> "5G-Policy", nssf |-> "5G-Slicing",
     bsf |-> "5G-Session-Management", scp |-> "5G-Service-Communication-Proxy",
     webui |-> "Web-Interface", mongo |-> "Database", grafana |-> "Monitoring",
     metrics |-> "Metrics-Collection", srsenb |-> "4G-Radio-Access-Network",
     srsgnb |-> "5G-Radio-Access-Network", srsue |-> "User-Equipment"]

\* the name -> environment variable table of getComponentIP
ipMappings ==
    [mme |-> "MME_IP", hss |-> "HSS_IP", sgwc |-> "SGWC_IP", sgwu |-> "SGWU_IP",
     pcrf |-> "PCRF_IP", amf |-> "AMF_IP", smf |-> "SMF_IP", upf |-> "UPF_IP",
     nrf |-> "NRF_IP", udm |-> "UDM_IP", udr |-> "UDR_IP", ausf |-> "AUSF_IP",
     pcf |-> "PCF_IP", nssf |-> "NSSF_IP", bsf |-> "BSF_IP", scp |-> "SCP_IP",
     webui |-> "WEBUI_IP", mongo |-> "MONGO_IP", grafana |-> "GRAFANA_IP",
     metrics |-> "METRICS_IP", srsenb |-> "SRS_ENB_IP", srsgnb |-> "SRS_GNB_IP",
     srsue |-> "SRS_UE_IP"]

\* the parsed .env file: the addresses it assigns
envConfig ==
    [AMF_IP |-> "172.22.0.10", SMF_IP |-> "172.22.0.7", UPF_IP |-> "172.22.0.8",
     WEBUI_IP |-> "172.22.0.26"]

\* getComponentIP: the address of the first matching key the map iteration
\* yields that the environment defines, else "Unknown"
getComponentIP(name) ==
    LET hits == {k \in DOMAIN ipMappings :
                    Contains(name, k) /\ ipMappings[k] \in DOMAIN envConfig}
    IN  IF hits = {} THEN {"Unknown"} ELSE {envConfig[ipMappings[k]] : k \in hits}

\* getContainerPorts: the port lists the containers of the model can have
containerPorts(name) ==
    IF name = "upf" THEN {<<>>, <<"2152/udp">>}
    ELSE IF name = "webui" THEN {<<"9999:9999/tcp">>}
    ELSE IF name = "smf" THEN {<<>>, <<"7777/tcp">>}
    ELSE {<<>>}

\* getComponentType ranges over a Go map: for a name that contains several
\* keys the iteration order decides, so the result is any of the matches.
getComponentType(name) ==
    LET hits == {k \in DOMAIN componentTypes : Contains(name, k)}
    IN  IF hits = {} THEN {"Unknown"} ELSE {componentTypes[k] : k \in hits}

\* the components mapComponents can produce for a container of this name
ComponentsFor(name) ==
    {[Type |-> ty, IP |-> ip, Ports |-> ports, IsRunning |-> r] :
        ty \in getComponentType(name), ip \in getComponentIP(name),
        ports \in containerPorts(name), r \in BOOLEAN}

\* the topologies DiscoverTopology can return over the containers N
Topologies(N) ==
    UNION {
        {[Components |-> c] :
            c \in {f \in [S -> UNION {ComponentsFor(n) : n \in S}] :
                      \A n \in S : f[n] \in ComponentsFor(n)}}
        : S \in SUBSET N}

-----------------------------------------------------------------------------
(* CollectorManager *)

NF_AMF == "amf"
NF_SMF == "smf"
NF_PCF == "pcf"
NF_UPF == "upf"
NF_MME == "mme"
NF_PCRF == "pcrf"

NFTypes == {NF_AMF, NF_SMF, NF_PCF, NF_UPF, NF_MME, NF_PCRF}

\* portMap with the SMF and PCF ports exchanged
portMap_SmfPcfSwapped ==
    [amf |-> 9091, smf |-> 9093, pcf |-> 9092, upf |-> 9094, mme |-> 9095, pcrf |-> 9096]

\* NewCollectorManager: the default port of each NF type
portMap ==
    [amf |-> 9091, smf |-> 9092, pcf |-> 9093, upf |-> 9094, mme |-> 9095, pcrf |-> 9096]

\* GetCollectorFactory: the NF types a collector can be built for
collectorFactory == {NF_AMF, NF_SMF, NF_PCF, NF_UPF, NF_MME, NF_PCRF}

\* detectNFType: first match on the lower-cased name, then on the lower-cased
\* component type; "" when nothing matches
detectNFType(componentName, component) ==
    LET name == ToLower(componentName)
        componentType == ToLower(component.Type)
    IN  IF Contains(name, "amf") THEN NF_AMF
        ELSE IF Contains(name, "smf") THEN NF_SMF
        ELSE IF Contains(name, "pcf") THEN NF_PCF
        ELSE IF Contains(name, "upf") THEN NF_UPF
        ELSE IF Contains(name, "mme") THEN NF_MME
        ELSE IF Contains(name, "pcrf") THEN NF_PCRF
        ELSE IF Contains(componentType, "access") \/ Contains(componentType, "mobility")
             THEN NF_AMF
        ELSE IF Contains(componentType, "session") THEN NF_SMF
        ELSE IF Contains(componentType, "policy")
             THEN IF Contains(componentType, "5g") THEN NF_PCF ELSE NF_PCRF
        ELSE IF Contains(componentType, "user") \/ Contains(componentType, "plane")
             THEN NF_UPF
        ELSE IF Contains(componentType, "mme") \/ Contains(componentType, "4g")
             THEN NF_MME
        ELSE ""

\* detectNFType of every component discovery can produce for the names of the
\* model, computed once
detected ==
    [n \in AllNames |->
        [ty \in getComponentType(n) |-> detectNFType(n, [Type |-> ty])]]

\* requiredCollectors without the IsRunning test
requiredCollectors_IgnoresRunState(topology) ==
    LET c == topology.Components
        req == {n \in DOMAIN c : detected[n][c[n].Type] # ""}
    IN  [n \in req |-> detected[n][c[n].Type]]

\* UpdateTopology, first loop: the running components with a detected NF type
requiredCollectors(topology) ==
    LET c == topology.Components
        req == {n \in DOMAIN c : c[n].IsRunning /\ detected[n][c[n].Type] # ""}
    IN  [n \in req |-> detected[n][c[n].Type]]

RECURSIVE NextFreePort(_, _)
NextFreePort(port, usedPorts) ==
    IF port \in usedPorts THEN NextFreePort(port + 1, usedPorts) ELSE port

\* getAvailablePort that hands out the base port whatever is in use
getAvailablePort_BaseOnly(colls, nfType, componentName) ==
    portMap[nfType]

\* getAvailablePort: the base port of the type, stepped past every port some
\* collector of the table holds
getAvailablePort(colls, nfType, componentName) ==
    LET basePort == portMap[nfType]
        usedPorts == {colls[n].port : n \in DOMAIN colls}
    IN  NextFreePort(basePort, usedPorts)

\* what startCollector creates: the collector object, its context and the
\* goroutine that will run collector.Start
NewInstance(componentName, nfType, port) ==
    [componentName |-> componentName, nfType |-> nfType, port |-> port,
     cancelCalls |-> 0, server |-> "starting"]

\* startCollector that stores the collector but not its cancel func
startCollector_ForgetsCancel(st, componentName, nfType) ==
    IF nfType \notin DOMAIN portMap
    THEN st
    ELSE LET adjustedPort == getAvailablePort(st.collectors, nfType, componentName)
             id == Len(st.instances) + 1
         IN  [collectors |->
                 [n \in DOMAIN st.collectors \cup {componentName} |->
                     IF n = componentName
                     THEN [nfType |-> nfType, port |-> adjustedPort, id |-> id]
                     ELSE st.collectors[n]],
              running |-> st.running,
              instances |->
                 Append(st.instances, NewInstance(componentName, nfType, adjustedPort))]

\* startCollector on the table st = [collectors, running, instances]; the
\* error return leaves st as it was
startCollector(st, componentName, nfType) ==
    IF nfType \notin DOMAIN portMap
    THEN st
    ELSE LET adjustedPort == getAvailablePort(st.collectors, nfType, componentName)
             id == Len(st.instances) + 1
         IN  [collectors |->
                 [n \in DOMAIN st.collectors \cup {componentName} |->
                     IF n = componentName
                     THEN [nfType |-> nfType, port |-> adjustedPort, id |-> id]
                     ELSE st.collectors[n]],
              running |->
                 [n \in DOMAIN st.running \cup {componentName} |->
                     IF n = componentName THEN id ELSE st.running[n]],
              instances |->
                 Append(st.instances, NewInstance(componentName, nfType, adjustedPort))]

\* cancelFunc(): one more call on the context of each instance in ids
Cancel(insts, ids) ==
    [i \in DOMAIN insts |->
        IF i \in ids THEN [insts[i] EXCEPT !.cancelCalls = @ + 1] ELSE insts[i]]

\* StopUnneeded that cancels but forgets the two deletes
StopUnneeded_KeepsRecords(st, required) ==
    LET gone == {n \in DOMAIN st.running : n \notin DOMAIN required}
    IN  [collectors |-> st.collectors,
         running |-> st.running,
         instances |-> Cancel(st.instances, {st.running[n] : n \in gone})]

\* UpdateTopology, second loop: cancel and delete what is not required
StopUnneeded(st, required) ==
    LET gone == {n \in DOMAIN st.running : n \notin DOMAIN required}
    IN  [collectors |-> [n \in DOMAIN st.collectors \ gone |-> st.collectors[n]],
         running |-> [n \in DOMAIN st.running \ gone |-> st.running[n]],
         instances |-> Cancel(st.instances, {st.running[n] : n \in gone})]

\* StartNew without the test for an existing cancel func
RECURSIVE StartNew_NoExistsTest(_, _, _)
StartNew_NoExistsTest(st, required, order) ==
    IF order = <<>> THEN st
    ELSE StartNew_NoExistsTest(
             startCollector(st, Head(order), required[Head(order)]), required, Tail(order))

\* UpdateTopology, third loop, in the order the map iteration yields the names
RECURSIVE StartNew(_, _, _)
StartNew(st, required, order) ==
    IF order = <<>> THEN st
    ELSE LET componentName == Head(order)
             next == IF componentName \notin DOMAIN st.running
                     THEN startCollector(st, componentName, required[componentName])
                     ELSE st
         IN  StartNew(next, required, Tail(order))

\* the orders in which a Go map can yield the keys S
Orders(S) ==
    {o \in [1..Cardinality(S) -> S] : \A i, j \in 1..Cardinality(S) : o[i] = o[j] => i = j}

\* the tables UpdateTopology can leave
UpdateTopologyResults(st, topology) ==
    LET required == requiredCollectors(topology)
        stopped == StopUnneeded(st, required)
    IN  {StartNew(stopped, required, order) : order \in Orders(DOMAIN required)}

\* ValidateConfiguration, its check for port conflicts: the ports that more
\* than one component of the table is registered on
ValidateConfiguration(colls) ==
    LET portUsage == [port \in {colls[n].port : n \in DOMAIN colls} |->
                          {n \in DOMAIN colls : colls[n].port = port}]
    IN  {port \in DOMAIN portUsage : Cardinality(portUsage[port]) > 1}

\* the pass would not start more collectors than the model follows
WithinInstances(topology) ==
    Len(instances) + Cardinality(DOMAIN requiredCollectors(topology) \ DOMAIN running)
        <= MaxInstances

CMState == [collectors |-> collectors, running |-> running, instances |-> instances]

\* CollectorManager.UpdateTopology, under cm.mu from entry to return
CMUpdateTopology(topology) ==
    /\ \E st \in UpdateTopologyResults(CMState, topology) :
          /\ collectors' = st.collectors
          /\ running' = st.running
          /\ instances' = st.instances
    /\ cmTopology' = topology
    /\ cmLastCall' = "UpdateTopology"
    /\ cmRepeated' = (cmLastCall = "UpdateTopology" /\ cmTopology = topology)

\* CollectorManager.Stop: cancel everything, then clear both maps
CMStop ==
    /\ instances' = Cancel(instances, {running[n] : n \in DOMAIN running})
    /\ collectors' = <<>>
    /\ running' = <<>>
    /\ cmLastCall' = "Stop"
    /\ cmRepeated' = FALSE
    /\ UNCHANGED cmTopology

CMInit ==
    /\ cmTopology = Nil
    /\ collectors = <<>>
    /\ running = <<>>
    /\ instances = <<>>
    /\ cmLastCall = "NewCollectorManager"
    /\ cmRepeated = FALSE

-----------------------------------------------------------------------------
(* The collector manager driven directly by its callers *)

CMTopologies == Topologies(CMNames)

\* the goroutines that touch the maps of the health and the container
\* collector: one per HTTP route (net/http runs each request on a goroutine
\* of its own), the two loops, and the orchestrator's reconcile loop
Handlers == {"/health/metrics", "/health/status", "/container/metrics"}
GoNames == Handlers \cup {"prober", "sampler", "orchestrator"}

\* the state once NewUpdatedMetricsOrchestrator has returned, before Start
Init ==
    /\ CMInit
    /\ hccTopology = Nil
    /\ checkConfigs = <<>>
    /\ healthCache = <<>>
    /\ probed = <<>>
    /\ cmcTopology = Nil
    /\ statsCache = <<>>
    /\ lastCPUStats = <<>>
    /\ lastSample = <<>>
    /\ lastTried = <<>>
    /\ lastTopology = Nil
    /\ registry = <<>>
    /\ configFile = <<>>
    /\ loopVarPerIteration \in BOOLEAN
    /\ pc = "new"
    /\ containers \in [OrchNames -> {"absent", "stopped", "running"}]
    /\ changes = 0
    /\ scanned = <<>>
    /\ currentMetric = [Name |-> "", Type |-> "", Help |-> "", Value |-> 0, Labels |-> <<>>]
    /\ metrics = <<>>
    /\ panicked = FALSE
    /\ labelled = Nil
    /\ realMetrics = <<>>
    /\ realCounters = <<>>
    /\ lastUpdate = 0
    /\ lastFetchError = ""
    /\ response = Nil
    /\ now = 0
    /\ ctxDone = FALSE
    /\ calls = [l \in LoopNames |-> [pc |-> "new", elapsed |-> 0, err |-> ""]]
    /\ goroutines = [g \in GoNames |-> "idle"]
    /\ rcoMu = [writer |-> "", readers |-> {}]
    /\ rcoStatus = "initialized"
    /\ rcoCtxDone = FALSE
    /\ rcoCalls = [c \in {"Start", "Stop", "WaitForHealthy"} |->
                      [pc |-> "idle", timeout |-> 0, elapsed |-> 0, err |-> ""]]
    /\ rcmTopology = Nil
    /\ rcmCollectors = <<>>
    /\ rcmStarted = {}

\* the same with no container yet
InitIdle ==
    /\ Init
    /\ \A n \in OrchNames : containers[n] = "absent"
    /\ loopVarPerIteration

UpdateTopology ==
    /\ \E topology \in CMTopologies :
          WithinInstances(topology) /\ CMUpdateTopology(topology)
    /\ UNCHANGED <<hccVars, cmcVars, umoVars, envVars, ctxVars, goVars, rocVars>>

Stop ==
    /\ cmLastCall # "Stop"
    /\ CMStop
    /\ UNCHANGED <<hccVars, cmcVars, umoVars, envVars, ctxVars, goVars, rocVars>>

NextCM ==
    \/ UpdateTopology
    \/ Stop

SpecCM == InitIdle /\ [][NextCM]_vars

-----------------------------------------------------------------------------
(* The collector goroutines: startCollector's go func running              *)
(* OfficialEndpointCollector.Start                                          *)

SetServer(i, state) ==
    instances' = [instances EXCEPT ![i].server = state]

\* the port is bound by the server of another collector of this process
PortHeld(i) ==
    \E j \in DOMAIN instances :
        /\ j # i
        /\ instances[j].server \in {"listening", "serving"}
        /\ instances[j].port = instances[i].port

\* Start's inner goroutine: httpServer.ListenAndServe binds the port, or
\* fails and logs when the port is taken, by a server of this process that has
\* not shut down yet or by a process outside it
ListenAndServe(i) ==
    /\ instances[i].server = "starting"
    /\ \E free \in BOOLEAN :
          SetServer(i, IF free /\ ~PortHeld(i) THEN "listening" ELSE "bindFailed")
    /\ UNCHANGED <<cmTopology, collectors, running, cmLastCall, cmRepeated>>
    /\ UNCHANGED <<hccVars, cmcVars, umoVars, envVars, ctxVars, goVars, rocVars>>

\* a client's request reaches a handler of the server, which is "serving"
\* while the request is in flight
RequestArrives(i) ==
    /\ instances[i].server = "listening"
    /\ SetServer(i, "serving")
    /\ UNCHANGED <<cmTopology, collectors, running, cmLastCall, cmRepeated>>
    /\ UNCHANGED <<hccVars, cmcVars, umoVars, envVars, ctxVars, goVars, rocVars>>

\* the request ends and its connection becomes idle; a Shutdown that waited
\* for it returns
RequestCompletes(i) ==
    /\ instances[i].server \in {"serving", "draining"}
    /\ SetServer(i, IF instances[i].server = "serving" THEN "listening" ELSE "closed")
    /\ UNCHANGED <<cmTopology, collectors, running, cmLastCall, cmRepeated>>
    /\ UNCHANGED <<hccVars, cmcVars, umoVars, envVars, ctxVars, goVars, rocVars>>

\* Start after <-ctx.Done(): httpServer.Shutdown(context.Background()) closes
\* the listener and returns once no connection is active; with a context that
\* is never done it waits for an in-flight request for as long as that takes
Shutdown(i) ==
    /\ instances[i].cancelCalls > 0
    /\ instances[i].server \notin {"closed", "draining"}
    /\ SetServer(i, IF instances[i].server = "serving" THEN "draining" ELSE "closed")
    /\ UNCHANGED <<cmTopology, collectors, running, cmLastCall, cmRepeated>>
    /\ UNCHANGED <<hccVars, cmcVars, umoVars, envVars, ctxVars, goVars, rocVars>>

ServerTopologies == Topologies(ServerNames)

Reconcile ==
    /\ \E topology \in ServerTopologies :
          WithinInstances(topology) /\ CMUpdateTopology(topology)
    /\ UNCHANGED <<hccVars, cmcVars, umoVars, envVars, ctxVars, goVars, rocVars>>

NextServers ==
    \/ Reconcile
    \/ Stop
    \/ \E i \in DOMAIN instances : ListenAndServe(i)
    \/ \E i \in DOMAIN instances : Shutdown(i)
    \/ \E i \in DOMAIN instances : RequestArrives(i)
    \/ \E i \in DOMAIN instances : RequestCompletes(i)

SpecServers == InitIdle /\ [][NextServers]_vars

\* a collector goroutine whose context is done goes on to call Shutdown;
\* nothing makes a client finish its request
FairSpecServers ==
    SpecServers /\ \A i \in 1..MaxInstances :
                      WF_vars(i \in DOMAIN instances /\ Shutdown(i))

-----------------------------------------------------------------------------
(* HealthCheckCollector *)

HealthStatusUp == "up"
HealthStatusDown == "down"

\* strings.Split(s, sep)[0] for a one-character separator
RECURSIVE BeforeSep(_, _)
BeforeSep(s, sep) ==
    IF Len(s) = 0 \/ SubSeq(s, 1, 1) = sep THEN ""
    ELSE SubSeq(s, 1, 1) \o BeforeSep(SubSeq(s, 2, Len(s)), sep)

\* the web-interface branch of createHealthCheckConfig: the endpoint of the
\* first port that looks like an HTTP port, "" when there is none
RECURSIVE WebEndpoint(_, _)
WebEndpoint(ip, ports) ==
    IF ports = <<>> THEN ""
    ELSE LET port == Head(ports)
         IN  IF Contains(port, "80") \/ Contains(port, "30") \/ Contains(port, "90")
             THEN IF Contains(port, ":")
                  THEN "http://" \o port
                  ELSE "http://" \o ip \o ":" \o BeforeSep(port, "/")
             ELSE WebEndpoint(ip, Tail(ports))

\* the TCP branches: the first port of the component, "" when it has none
FirstPortEndpoint(component) ==
    IF Len(component.Ports) > 0
    THEN component.IP \o ":" \o BeforeSep(component.Ports[1], "/")
    ELSE ""

\* createHealthCheckConfig: the check of a component, Nil when no endpoint
\* can be derived
createHealthCheckConfig(name, component) ==
    LET config ==
            IF Contains(name, "webui") \/ Contains(name, "grafana")
            THEN [CheckType |-> "http", Path |-> "/",
                  Endpoint |-> WebEndpoint(component.IP, component.Ports)]
            ELSE IF Contains(name, "mongo") \/ Contains(name, "redis") \/ Contains(name, "mysql")
            THEN [CheckType |-> "tcp", Path |-> "", Endpoint |-> FirstPortEndpoint(component)]
            ELSE IF \/ Contains(name, "amf") \/ Contains(name, "smf") \/ Contains(name, "nrf")
                    \/ Contains(name, "pcf") \/ Contains(name, "mme") \/ Contains(name, "hss")
            THEN [CheckType |-> "http", Path |-> "/health",
                  Endpoint |-> "http://" \o component.IP \o ":8080/health"]
            ELSE [CheckType |-> "tcp", Path |-> "", Endpoint |-> FirstPortEndpoint(component)]
    IN  IF config.Endpoint = "" THEN Nil
        ELSE [ComponentID |-> name, CheckType |-> config.CheckType,
              Path |-> config.Path, Endpoint |-> config.Endpoint]

\* generateHealthCheckConfigs: a fresh table with the checks of the running
\* components; a nil topology leaves the table as it is
generateHealthCheckConfigs(topology, configs) ==
    IF topology = Nil THEN configs
    ELSE LET c == topology.Components
             checked == {n \in DOMAIN c :
                            c[n].IsRunning /\ createHealthCheckConfig(n, c[n]) # Nil}
         IN  [n \in checked |-> createHealthCheckConfig(n, c[n])]

\* the milliseconds a probe of the model takes to succeed and to fail
ResponseTimes == [up |-> 2, down |-> 5]

\* performHealthCheck: the ComponentHealth of one probe that came out `status`
performHealthCheck(config, status) ==
    [ComponentID |-> config.ComponentID, Status |-> status,
     ResponseTime |-> ResponseTimes[status],
     Endpoint |-> config.Endpoint, CheckType |-> config.CheckType,
     ConsecutiveFails |-> 0, TotalChecks |-> 0, SuccessRate |-> <<0, 1>>]

\* float64(a) / float64(b) * 100 as the exact fraction <<100 * a, b>>
Percent(a, b) == <<100 * a, b>>

\* an update that carries the failure count over a successful probe
updateComponentHealth_NoReset(cache, componentID, newHealth) ==
    IF componentID \in DOMAIN cache
    THEN [newHealth EXCEPT !.TotalChecks = cache[componentID].TotalChecks + 1,
                           !.ConsecutiveFails = cache[componentID].ConsecutiveFails
                               + (IF newHealth.Status = HealthStatusDown THEN 1 ELSE 0)]
    ELSE [newHealth EXCEPT !.TotalChecks = 1,
                           !.ConsecutiveFails =
                               IF newHealth.Status = HealthStatusDown THEN 1 ELSE 0]

\* updateComponentHealth: the entry stored for componentID
updateComponentHealth(cache, componentID, newHealth) ==
    IF componentID \in DOMAIN cache
    THEN LET existing == cache[componentID]
             totalChecks == existing.TotalChecks + 1
             consecutiveFails == IF newHealth.Status = HealthStatusDown
                                 THEN existing.ConsecutiveFails + 1
                                 ELSE 0
             successfulChecks ==
                 IF existing.Status # HealthStatusDown
                 THEN totalChecks - consecutiveFails
                          + existing.TotalChecks - existing.ConsecutiveFails
                 ELSE totalChecks - consecutiveFails
         IN  [newHealth EXCEPT !.TotalChecks = totalChecks,
                               !.ConsecutiveFails = consecutiveFails,
                               !.SuccessRate = Percent(successfulChecks, totalChecks)]
    ELSE [newHealth EXCEPT !.TotalChecks = 1,
                           !.ConsecutiveFails =
                               IF newHealth.Status = HealthStatusDown THEN 1 ELSE 0,
                           !.SuccessRate =
                               IF newHealth.Status = HealthStatusDown
                               THEN <<0, 1>> ELSE <<100, 1>>]

\* the sum of the response times of the entries
RECURSIVE SumResponseTimes(_, _)
SumResponseTimes(cache, names) ==
    IF names = {} THEN 0
    ELSE LET n == CHOOSE x \in names : TRUE
         IN  cache[n].ResponseTime + SumResponseTimes(cache, names \ {n})

\* generateHealthSummary, which handleHealthStatusRequest calls for each
\* request; a quotient of floats is the fraction <<numerator, denominator>>,
\* and 0.0 / 0.0, which is NaN, the fraction <<0, 0>>
generateHealthSummary(cache) ==
    LET total == Cardinality(DOMAIN cache)
        up == Cardinality({n \in DOMAIN cache : cache[n].Status = HealthStatusUp})
        down == Cardinality({n \in DOMAIN cache : cache[n].Status # HealthStatusUp})
        sum == SumResponseTimes(cache, DOMAIN cache)
    IN  [total_components |-> total,
         components_up |-> up,
         components_down |-> down,
         health_percentage |-> Percent(up, total),
         avg_response_time_ms |-> IF total > 0 THEN <<sum, total>> ELSE <<0, 1>>]

\* performAllHealthChecks: one probe of every configured component, each
\* folded into the cache; outcome[n] is how the probe of n came out
performAllHealthChecks(cache, configs, outcome) ==
    [n \in DOMAIN cache \cup DOMAIN configs |->
        IF n \in DOMAIN configs
        THEN updateComponentHealth(cache, n, performHealthCheck(configs[n], outcome[n]))
        ELSE cache[n]]

\* HealthCheckCollector.UpdateTopology
HccUpdateTopology(topology) ==
    /\ hccTopology' = topology
    /\ checkConfigs' = generateHealthCheckConfigs(topology, checkConfigs)
    /\ UNCHANGED <<healthCache, probed>>

\* HealthCheckCollector.Start up to the launch of the prober loop
HccStart(topology) ==
    /\ hccTopology' = topology
    /\ checkConfigs' = generateHealthCheckConfigs(topology, checkConfigs)
    /\ UNCHANGED <<healthCache, probed>>

\* one round of performHealthChecksPeriodically
HccSweep ==
    /\ \A n \in DOMAIN checkConfigs \cap DOMAIN healthCache :
          healthCache[n].TotalChecks < MaxChecks
    /\ \E outcome \in [DOMAIN checkConfigs -> {HealthStatusUp, HealthStatusDown}] :
          /\ healthCache' = performAllHealthChecks(healthCache, checkConfigs, outcome)
          /\ probed' = [n \in DOMAIN probed \cup DOMAIN checkConfigs |->
                           IF n \in DOMAIN checkConfigs
                           THEN Append(IF n \in DOMAIN probed THEN probed[n] ELSE <<>>,
                                       outcome[n])
                           ELSE probed[n]]
    /\ UNCHANGED <<hccTopology, checkConfigs>>

-----------------------------------------------------------------------------
(* The health prober on its own: started, re-pointed at new topologies,    *)
(* sweeping                                                                 *)

HealthTopologies == Topologies(HealthNames)

ProberStart ==
    /\ hccTopology = Nil
    /\ \E topology \in HealthTopologies : HccStart(topology)
    /\ UNCHANGED <<cmVars, cmcVars, umoVars, envVars, ctxVars, goVars, rocVars>>

ProberUpdateTopology ==
    /\ hccTopology # Nil
    /\ \E topology \in HealthTopologies : HccUpdateTopology(topology)
    /\ UNCHANGED <<cmVars, cmcVars, umoVars, envVars, ctxVars, goVars, rocVars>>

ProberSweep ==
    /\ hccTopology # Nil
    /\ HccSweep
    /\ UNCHANGED <<cmVars, cmcVars, umoVars, envVars, ctxVars, goVars, rocVars>>

NextHealth ==
    \/ ProberStart
    \/ ProberUpdateTopology
    \/ ProberSweep

SpecHealth == InitIdle /\ [][NextHealth]_vars

-----------------------------------------------------------------------------
(* ContainerMetricsCollector *)

\* online_cpus readings: absent or zero, and a two-CPU host
OnlineCPUChoices == {0, 2}

\* the snapshot outside cpu_stats, as the JSON object it is: every category
\* under its usual key
FullSnapshot ==
    [memory_stats |-> [usage |-> 1, limit |-> 4],
     networks |-> [eth0 |-> [rx_bytes |-> 1, tx_bytes |-> 2],
                   eth1 |-> [rx_bytes |-> 3, tx_bytes |-> 4]],
     blkio_stats |-> [io_service_bytes_recursive |->
                         <<[op |-> "Read", value |-> 3], [op |-> "write", value |-> 1],
                           [op |-> "Read", value |-> 2], [op |-> "sync", value |-> 7]>>],
     pids_stats |-> [current |-> 5]]

\* the object without one of its keys
Without(object, key) == [k \in DOMAIN object \ {key} |-> object[k]]

\* the object with one key renamed
Renamed(object, key, to) ==
    [k \in (DOMAIN object \ {key}) \cup {to} |-> IF k = to THEN object[key] ELSE object[k]]

\* the snapshots of the model: complete, with one category missing, with
\* block I/O under another key, with a field missing inside a category
RestChoices ==
    {FullSnapshot}
    \cup {Without(FullSnapshot, k) : k \in DOMAIN FullSnapshot}
    \cup {Renamed(FullSnapshot, "blkio_stats", to) : to \in {"blockio_stats", "io_stats"}}
    \cup {[FullSnapshot EXCEPT !.memory_stats = [usage |-> 1]]}

\* extractMemoryStats
extractMemoryStats(rawStats, stats) ==
    IF "memory_stats" \notin DOMAIN rawStats
    THEN stats
    ELSE LET memStatsRaw == rawStats.memory_stats
             usage == IF "usage" \in DOMAIN memStatsRaw THEN memStatsRaw.usage ELSE 0
         IN  IF "limit" \in DOMAIN memStatsRaw
             THEN [stats EXCEPT !.MemoryUsage = usage,
                                !.MemoryLimit = memStatsRaw.limit,
                                !.MemoryPercent = IF memStatsRaw.limit > 0
                                                  THEN <<usage * 100, memStatsRaw.limit>>
                                                  ELSE <<0, 1>>]
             ELSE [stats EXCEPT !.MemoryUsage = usage]

\* the sum of one counter over the interfaces that report it
RECURSIVE SumInterfaces(_, _, _)
SumInterfaces(networksRaw, names, field) ==
    IF names = {} THEN 0
    ELSE LET n == CHOOSE x \in names : TRUE
         IN  (IF field \in DOMAIN networksRaw[n] THEN networksRaw[n][field] ELSE 0)
                 + SumInterfaces(networksRaw, names \ {n}, field)

\* extractNetworkStats
extractNetworkStats(rawStats, stats) ==
    IF "networks" \notin DOMAIN rawStats
    THEN stats
    ELSE LET networksRaw == rawStats.networks
         IN  [stats EXCEPT
                 !.NetworkRxBytes = @ + SumInterfaces(networksRaw, DOMAIN networksRaw, "rx_bytes"),
                 !.NetworkTxBytes = @ + SumInterfaces(networksRaw, DOMAIN networksRaw, "tx_bytes")]

\* the keys extractBlockIOStats tries, in its order
blockIOFieldNames == <<"blokio_stats", "blockio_stats", "blkio_stats">>

\* the bytes of one operation over the entries of io_service_bytes_recursive
RECURSIVE SumOp(_, _)
SumOp(ioServiceBytes, op) ==
    IF ioServiceBytes = <<>> THEN 0
    ELSE (IF ToLower(Head(ioServiceBytes).op) = op THEN Head(ioServiceBytes).value ELSE 0)
             + SumOp(Tail(ioServiceBytes), op)

\* extractBlockIOStats
extractBlockIOStats(rawStats, stats) ==
    LET found == {i \in DOMAIN blockIOFieldNames : blockIOFieldNames[i] \in DOMAIN rawStats}
    IN  IF found = {}
        THEN stats
        ELSE LET first == CHOOSE i \in found : \A j \in found : i <= j
                 blkioStatsRaw == rawStats[blockIOFieldNames[first]]
             IN  IF "io_service_bytes_recursive" \in DOMAIN blkioStatsRaw
                 THEN [stats EXCEPT
                          !.BlockRead = @ + SumOp(blkioStatsRaw.io_service_bytes_recursive, "read"),
                          !.BlockWrite = @ + SumOp(blkioStatsRaw.io_service_bytes_recursive, "write")]
                 ELSE stats

\* extractPIDStats
extractPIDStats(rawStats, stats) ==
    IF "pids_stats" \notin DOMAIN rawStats
    THEN stats
    ELSE IF "current" \in DOMAIN rawStats.pids_stats
         THEN [stats EXCEPT !.PIDs = rawStats.pids_stats.current]
         ELSE stats

\* the ContainerStats collectContainerStats builds from a snapshot once
\* extractCPUStats has given the CPU percentage: the other extractors in
\* turn, the error of each one only logged
\* an extraction that gives up at the first category it cannot find
extractRest_StopsAtFirstError(rawStats) ==
    LET stats == [Name |-> "", CPUPercent |-> <<0, 1>>,
                  MemoryUsage |-> 0, MemoryLimit |-> 0, MemoryPercent |-> <<0, 1>>,
                  NetworkRxBytes |-> 0, NetworkTxBytes |-> 0,
                  BlockRead |-> 0, BlockWrite |-> 0, PIDs |-> 0]
        memory == extractMemoryStats(rawStats, stats)
        network == extractNetworkStats(rawStats, memory)
        block == extractBlockIOStats(rawStats, network)
    IN  IF "memory_stats" \notin DOMAIN rawStats THEN stats
        ELSE IF "networks" \notin DOMAIN rawStats THEN memory
        ELSE IF \A i \in DOMAIN blockIOFieldNames : blockIOFieldNames[i] \notin DOMAIN rawStats
        THEN network
        ELSE extractPIDStats(rawStats, block)

\* the extractors after extractCPUStats, on a ContainerStats that is still zero
extractRest(rawStats) ==
    LET stats == [Name |-> "", CPUPercent |-> <<0, 1>>,
                  MemoryUsage |-> 0, MemoryLimit |-> 0, MemoryPercent |-> <<0, 1>>,
                  NetworkRxBytes |-> 0, NetworkTxBytes |-> 0,
                  BlockRead |-> 0, BlockWrite |-> 0, PIDs |-> 0]
    IN  extractPIDStats(rawStats,
            extractBlockIOStats(rawStats,
                extractNetworkStats(rawStats,
                    extractMemoryStats(rawStats, stats))))

\* the same for every snapshot of the model, computed once
extracted == [rawStats \in RestChoices |-> extractRest(rawStats)]

collectContainerStats(name, CPUPercent, rawStats) ==
    [extracted[rawStats] EXCEPT !.Name = name, !.CPUPercent = CPUPercent]

\* what one pass of the loop of collectAllContainerStats can meet for a
\* component: ContainerList fails, the container is not in the list, the
\* stats call fails, or a snapshot arrives, with or without cpu_stats
Outcomes ==
    {[kind |-> k] : k \in {"listError", "notFound", "statsError"}}
    \cup {[kind |-> "noCpuStats", rest |-> r] : r \in RestChoices}
    \cup {[kind |-> "sample", total_usage |-> t, system_cpu_usage |-> u, online_cpus |-> c,
            rest |-> r] :
             t \in 0..MaxCounter, u \in 0..MaxCounter, c \in OnlineCPUChoices,
             r \in RestChoices}

\* the fewer outcomes followed for the components of the sweeps over two
\* components
FewOutcomes ==
    {[kind |-> k] : k \in {"listError", "notFound", "statsError"}}
    \cup {[kind |-> "noCpuStats", rest |-> FullSnapshot]}
    \cup {[kind |-> "sample", total_usage |-> t, system_cpu_usage |-> t, online_cpus |-> 2,
            rest |-> FullSnapshot] : t \in 1..MaxCounter}

OutcomesFor(sampled) == IF sampled \subseteq SamplerNames THEN Outcomes ELSE FewOutcomes

\* an extraction that multiplies by online_cpus as reported, zero included
extractCPUStats_NoFallback(last, rawStats, name) ==
    IF rawStats.kind = "noCpuStats"
    THEN [CPUPercent |-> <<0, 1>>, last |-> last]
    ELSE [CPUPercent |->
              IF /\ name \in DOMAIN last
                 /\ rawStats.system_cpu_usage > last[name].SystemUsage
                 /\ rawStats.total_usage > last[name].TotalUsage
              THEN <<(rawStats.total_usage - last[name].TotalUsage)
                         * rawStats.online_cpus * 100,
                     rawStats.system_cpu_usage - last[name].SystemUsage>>
              ELSE <<0, 1>>,
          last |-> [n \in DOMAIN last \cup {name} |->
                       IF n = name
                       THEN [TotalUsage |-> rawStats.total_usage,
                             SystemUsage |-> rawStats.system_cpu_usage,
                             OnlineCPUs |-> rawStats.online_cpus]
                       ELSE last[n]]]

\* extractCPUStats: CPUPercent as an exact fraction, and the table of last
\* readings it leaves
extractCPUStats(last, rawStats, name) ==
    IF rawStats.kind = "noCpuStats"
    THEN [CPUPercent |-> <<0, 1>>, last |-> last]
    ELSE LET totalUsage == rawStats.total_usage
             systemUsage == rawStats.system_cpu_usage
             onlineCPUs == rawStats.online_cpus
             numCPUs == IF onlineCPUs = 0 THEN 1 ELSE onlineCPUs
             percent ==
                 IF /\ name \in DOMAIN last
                    /\ systemUsage > last[name].SystemUsage
                    /\ totalUsage > last[name].TotalUsage
                 THEN <<(totalUsage - last[name].TotalUsage) * numCPUs * 100,
                        systemUsage - last[name].SystemUsage>>
                 ELSE <<0, 1>>
         IN  [CPUPercent |-> percent,
              last |-> [n \in DOMAIN last \cup {name} |->
                           IF n = name
                           THEN [TotalUsage |-> totalUsage, SystemUsage |-> systemUsage,
                                 OnlineCPUs |-> onlineCPUs]
                           ELSE last[n]]]

\* the loop of collectAllContainerStats over the running components in the
\* order the map yields them, on st = [statsCache, lastCPUStats, lastSample]
RECURSIVE CollectLoop(_, _, _)
CollectLoop(st, order, outcome) ==
    IF order = <<>> THEN st
    ELSE LET name == Head(order)
             o == outcome[name]
         IN  IF o.kind = "listError" THEN st
             ELSE IF o.kind \in {"notFound", "statsError"}
             THEN CollectLoop(st, Tail(order), outcome)
             ELSE LET cpu == extractCPUStats(st.lastCPUStats, o, name)
                      stats == collectContainerStats(name, cpu.CPUPercent, o.rest)
                  IN  CollectLoop(
                          [statsCache |->
                              [n \in DOMAIN st.statsCache \cup {name} |->
                                  IF n = name THEN stats ELSE st.statsCache[n]],
                           lastCPUStats |-> cpu.last,
                           lastSample |->
                              [n \in DOMAIN st.lastSample \cup {name} |->
                                  IF n = name THEN o ELSE st.lastSample[n]]],
                          Tail(order), outcome)

\* collectAllContainerStats, one tick of the sampler
collectAllContainerStats ==
    /\ cmcTopology # Nil
    /\ LET c == cmcTopology.Components
           sampled == {n \in DOMAIN c : c[n].IsRunning}
       IN  \E order \in Orders(sampled), outcome \in [sampled -> OutcomesFor(sampled)] :
              LET st == CollectLoop([statsCache |-> statsCache,
                                     lastCPUStats |-> lastCPUStats,
                                     lastSample |-> <<>>], order, outcome)
              IN  /\ statsCache' = st.statsCache
                  /\ lastCPUStats' = st.lastCPUStats
                  /\ lastSample' = st.lastSample
                  /\ lastTried' = [n \in sampled |-> outcome[n].kind]
    /\ UNCHANGED cmcTopology

\* ContainerMetricsCollector.UpdateTopology, and the assignment Start opens with
CmcUpdateTopology(topology) ==
    /\ cmcTopology' = topology
    /\ UNCHANGED <<statsCache, lastCPUStats, lastSample, lastTried>>

-----------------------------------------------------------------------------
(* The resource sampler on its own *)

SamplerTopologies == Topologies(SamplerNames)

SamplerStart ==
    /\ cmcTopology = Nil
    /\ \E topology \in SamplerTopologies : CmcUpdateTopology(topology)
    /\ UNCHANGED <<cmVars, hccVars, umoVars, envVars, ctxVars, goVars, rocVars>>

SamplerUpdateTopology ==
    /\ cmcTopology # Nil
    /\ \E topology \in SamplerTopologies : CmcUpdateTopology(topology)
    /\ UNCHANGED <<cmVars, hccVars, umoVars, envVars, ctxVars, goVars, rocVars>>

SamplerSweep ==
    /\ collectAllContainerStats
    /\ UNCHANGED <<cmVars, hccVars, umoVars, envVars, ctxVars, goVars, rocVars>>

NextSampler ==
    \/ SamplerStart
    \/ SamplerUpdateTopology
    \/ SamplerSweep

SpecSampler == InitIdle /\ [][NextSampler]_vars

-----------------------------------------------------------------------------
(* The resource sampler over two components *)

PairTopologies == Topologies(PairNames)

PairStart ==
    /\ cmcTopology = Nil
    /\ \E topology \in PairTopologies : CmcUpdateTopology(topology)
    /\ UNCHANGED <<cmVars, hccVars, umoVars, envVars, ctxVars, goVars, rocVars>>

PairSweep ==
    /\ collectAllContainerStats
    /\ UNCHANGED <<cmVars, hccVars, umoVars, envVars, ctxVars, goVars, rocVars>>

NextPair ==
    \/ PairStart
    \/ PairSweep

SpecPair == InitIdle /\ [][NextPair]_vars

-----------------------------------------------------------------------------
(* UpdatedMetricsOrchestrator and the container runtime it watches *)

OrchTopologies == Topologies(OrchNames)

\* what DiscoverTopology can return for the containers as they are: one
\* component per existing container, IsRunning when its state is "running"
DiscoverTopology(world) ==
    {t \in OrchTopologies :
        /\ DOMAIN t.Components = {n \in OrchNames : world[n] # "absent"}
        /\ \A n \in DOMAIN t.Components :
              t.Components[n].IsRunning = (world[n] = "running")}

\* hasTopologyChanged that compares every field of every component
hasTopologyChanged_ComparesAll(last, current) ==
    last = Nil \/ last # current

hasTopologyChanged(last, current) ==
    \/ last = Nil
    \/ /\ last # Nil
       /\ \/ Cardinality(DOMAIN current.Components) # Cardinality(DOMAIN last.Components)
          \/ \E name \in DOMAIN current.Components :
                \/ name \notin DOMAIN last.Components
                \/ /\ name \in DOMAIN last.Components
                   /\ current.Components[name].IsRunning # last.Components[name].IsRunning

SOURCE_OFFICIAL_ENDPOINT == "official_endpoint"
SOURCE_CONTAINER_STATS == "container_stats"
SOURCE_HEALTH_CHECK == "health_check"

containerMetricsPort == 8080
healthCheckPort == 8081

\* GetMetricsTargets: one target per record of the table, in the order the
\* iteration over the map yields them
GetMetricsTargets(colls) ==
    {[i \in 1..Len(order) |->
        [JobName |-> order[i] \o "-official",
         Target |-> [host |-> "localhost", port |-> colls[order[i]].port],
         Source |-> SOURCE_OFFICIAL_ENDPOINT,
         ScrapeePath |-> "/metrics",
         Interval |-> "5s",
         ComponentID |-> order[i],
         nf_type |-> colls[order[i]].nfType]]
     : order \in Orders(DOMAIN colls)}

\* registerOfficialEndpoints stores &target, the address of the loop
\* variable, under each job name. A build in which every iteration has its own
\* variable keeps each target; a build with one variable for the whole loop
\* leaves every entry pointing at the target copied last.
registerOfficialEndpoints(targets, perIteration) ==
    [job \in {targets[i].JobName : i \in DOMAIN targets} |->
        IF perIteration
        THEN CHOOSE t \in {targets[i] : i \in DOMAIN targets} : t.JobName = job
        ELSE targets[Len(targets)]]

RunningNames(topology) ==
    {m \in DOMAIN topology.Components : topology.Components[m].IsRunning}

registerContainerMetrics(topology) ==
    [job \in {n \o "-container" : n \in RunningNames(topology)} |->
        LET name == CHOOSE n \in RunningNames(topology) : n \o "-container" = job
        IN  [JobName |-> job,
             Target |-> [host |-> "host.docker.internal", port |-> containerMetricsPort],
             Source |-> SOURCE_CONTAINER_STATS,
             ScrapeePath |-> "/container/metrics",
             Interval |-> "10s",
             ComponentID |-> name,
             nf_type |-> ""]]

registerHealthChecks(topology) ==
    [job \in {n \o "-health" : n \in RunningNames(topology)} |->
        LET name == CHOOSE n \in RunningNames(topology) : n \o "-health" = job
        IN  [JobName |-> job,
             Target |-> [host |-> "host.docker.internal", port |-> healthCheckPort],
             Source |-> SOURCE_HEALTH_CHECK,
             ScrapeePath |-> "/health/metrics",
             Interval |-> "15s",
             ComponentID |-> name,
             nf_type |-> ""]]

\* buildPrometheusConfigContent: one job block per entry of the registry; the
\* file as the number of times each block is written
buildPrometheusConfigContent(targets) ==
    [e \in {targets[k] : k \in DOMAIN targets} |->
        Cardinality({k \in DOMAIN targets : targets[k] = e})]

\* updateMetricsConfiguration once DiscoverTopology has returned a topology:
\* written says whether os.WriteFile succeeded
reconcileDiscovered(written) ==
    \E topology \in DiscoverTopology(containers) :
        IF hasTopologyChanged(lastTopology, topology)
        THEN /\ CMUpdateTopology(topology)
             /\ \E targets \in GetMetricsTargets(collectors') :
                   registry' = registerOfficialEndpoints(targets, loopVarPerIteration)
                                   @@ registerContainerMetrics(topology)
                                   @@ registerHealthChecks(topology)
             /\ IF written
                THEN /\ configFile' = buildPrometheusConfigContent(registry')
                     /\ CmcUpdateTopology(topology)
                     /\ HccUpdateTopology(topology)
                     /\ lastTopology' = topology
                ELSE UNCHANGED <<configFile, cmcVars, hccVars, lastTopology>>
        ELSE UNCHANGED <<cmVars, hccVars, cmcVars, lastTopology, registry, configFile>>

updateMetricsConfiguration_IgnoresDiscoveryError(discovered, written) ==
    /\ UNCHANGED loopVarPerIteration
    /\ reconcileDiscovered(written)

\* updateMetricsConfiguration: discovered says whether DiscoverTopology
\* succeeded; its error is returned before anything else is done
updateMetricsConfiguration(discovered, written) ==
    /\ UNCHANGED loopVarPerIteration
    /\ IF ~discovered
       THEN UNCHANGED <<cmVars, hccVars, cmcVars, lastTopology, registry, configFile>>
       ELSE reconcileDiscovered(written)

\* the error Start returns when its first configuration pass fails
StartError(discovered, written) ==
    IF ~discovered THEN "failed to discover topology"
    ELSE IF ~written THEN "failed to generate Prometheus config"
    ELSE ""

\* Start up to its ticker loop: the first configuration pass must succeed,
\* and only then are the sampler, the prober and the ticker started; pc keeps
\* the error Start returned
Start ==
    /\ pc = "new"
    /\ \E discovered \in BOOLEAN, written \in BOOLEAN :
          /\ updateMetricsConfiguration(discovered, written)
          /\ pc' = IF StartError(discovered, written) = ""
                   THEN "running"
                   ELSE StartError(discovered, written)
    /\ UNCHANGED <<envVars, ctxVars, goVars, rocVars>>

\* case <-ticker.C
Tick ==
    /\ pc = "running"
    /\ \E discovered \in BOOLEAN, written \in BOOLEAN :
          updateMetricsConfiguration(discovered, written)
    /\ UNCHANGED <<pc, envVars, ctxVars, goVars, rocVars>>

\* a tick on which discovery and the write of the configuration succeed
TickSucceeds ==
    /\ pc = "running"
    /\ updateMetricsConfiguration(TRUE, TRUE)
    /\ UNCHANGED <<pc, envVars, ctxVars, goVars, rocVars>>

\* case <-ctx.Done()
Cancelled ==
    /\ pc = "running"
    /\ CMStop
    /\ pc' = "stopped"
    /\ UNCHANGED <<hccVars, cmcVars, lastTopology, registry, configFile, loopVarPerIteration, envVars, ctxVars, goVars, rocVars>>

\* a container is created, started, stopped or removed
ContainerChanges ==
    /\ changes < MaxChanges
    /\ \E n \in OrchNames, state \in {"absent", "stopped", "running"} :
          /\ containers[n] # state
          /\ containers' = [containers EXCEPT ![n] = state]
    /\ changes' = changes + 1
    /\ UNCHANGED <<cmVars, hccVars, cmcVars, umoVars, rocVars, ctxVars, goVars>>

Next ==
    \/ Start
    \/ Tick
    \/ Cancelled
    \/ ContainerChanges

Spec == Init /\ [][Next]_vars

\* the ticker keeps firing, and discovery and the write do not fail forever
FairSpec == Spec /\ WF_vars(TickSucceeds)

-----------------------------------------------------------------------------
(* RealOpen5GSCollector: the parser of the exposition format *)

\* the lines a response body of the model is made of
Lines ==
    {"",
     "# plain comment",
     "# HELP a requests",
     "# TYPE a gauge",
     "# TYPE b counter",
     "a 1",
     "b 2",
     "a{l=\"x\"} 3",
     "a{l=\"x y\"} 4",
     "a x",
     "a{l} 5",
     "a{ 6",
     "a{l=\"x\",m=\"y\"} 7"}

\* the zero OpenGSMetric
ZeroMetric == [Name |-> "", Type |-> "", Help |-> "", Value |-> 0, Labels |-> <<>>]

\* a split at every comma, quoted or not
RECURSIVE SplitPairs_AtEveryComma(_, _)
SplitPairs_AtEveryComma(labelStr, sp) ==
    IF labelStr = ""
    THEN IF Len(sp.current) > 0 THEN Append(sp.pairs, sp.current) ELSE sp.pairs
    ELSE LET char == SubSeq(labelStr, 1, 1)
             rest == SubSeq(labelStr, 2, Len(labelStr))
         IN  IF char = ","
             THEN SplitPairs_AtEveryComma(rest,
                      [sp EXCEPT !.pairs = Append(sp.pairs, sp.current), !.current = ""])
             ELSE SplitPairs_AtEveryComma(rest, [sp EXCEPT !.current = sp.current \o char])

\* the first loop of parseLabels: the pieces between commas outside quotes,
\* on sp = [pairs, current, inQuotes]
RECURSIVE SplitPairs(_, _)
SplitPairs(labelStr, sp) ==
    IF labelStr = ""
    THEN IF Len(sp.current) > 0 THEN Append(sp.pairs, sp.current) ELSE sp.pairs
    ELSE LET char == SubSeq(labelStr, 1, 1)
             rest == SubSeq(labelStr, 2, Len(labelStr))
         IN  IF char = "\""
             THEN SplitPairs(rest, [sp EXCEPT !.inQuotes = ~sp.inQuotes,
                                              !.current = sp.current \o char])
             ELSE IF char = "," /\ ~sp.inQuotes
             THEN SplitPairs(rest, [sp EXCEPT !.pairs = Append(sp.pairs, sp.current),
                                              !.current = ""])
             ELSE SplitPairs(rest, [sp EXCEPT !.current = sp.current \o char])

\* the second loop of parseLabels: every piece with an "=" sets its label
RECURSIVE SetLabels(_, _)
SetLabels(labels, labelPairs) ==
    IF labelPairs = <<>> THEN labels
    ELSE LET parts == SplitN2(TrimSpace(Head(labelPairs)), "=")
         IN  IF Len(parts) # 2 THEN SetLabels(labels, Tail(labelPairs))
             ELSE LET key == TrimSpace(parts[1])
                      value == Trim(TrimSpace(parts[2]), "\"")
                  IN  SetLabels([k \in DOMAIN labels \cup {key} |->
                                    IF k = key THEN value ELSE labels[k]],
                                Tail(labelPairs))

\* parseLabels; it has no path that returns an error
parseLabels(labelStr) ==
    IF labelStr = "" THEN <<>>
    ELSE SetLabels(<<>>, SplitPairs(labelStr,
                                    [pairs |-> <<>>, current |-> "", inQuotes |-> FALSE]))

\* parseMetricLine without the template: [kind |-> "metric", metric |-> m],
\* [kind |-> "error"], or [kind |-> "panic"] when the slice expression
\* metricPart[nameEnd+1 : len(metricPart)-1] is out of range
parseSample(line) ==
    LET parts == Fields(line)
    IN  IF Len(parts) < 2 THEN [kind |-> "error"]
        ELSE LET metricPart == parts[1]
                 value == ParseFloat(parts[2])
                 brace == Index(metricPart, "{")
             IN  IF ~value.ok THEN [kind |-> "error"]
                 ELSE IF brace = 0
                 THEN [kind |-> "metric",
                       metric |-> [ZeroMetric EXCEPT !.Name = metricPart,
                                                     !.Value = value.value]]
                 ELSE IF brace + 1 > Len(metricPart)
                 THEN [kind |-> "panic"]
                 ELSE [kind |-> "metric",
                       metric |-> [ZeroMetric EXCEPT
                           !.Name = SubSeq(metricPart, 1, brace - 1),
                           !.Value = value.value,
                           !.Labels = parseLabels(SubSeq(metricPart, brace + 1,
                                                         Len(metricPart) - 1))]]

\* parseSample of every line of the model
samples == [line \in Lines |-> parseSample(TrimSpace(line))]

\* parseMetricLine: Help and Type come from the template
parseMetricLine(line, templateMetric) ==
    LET r == samples[line]
    IN  IF r.kind # "metric" THEN r
        ELSE [kind |-> "metric",
              metric |-> [r.metric EXCEPT !.Help = templateMetric.Help,
                                          !.Type = templateMetric.Type]]

\* what the loop of parsePrometheusFormat takes a line for
classify(text) ==
    LET line == TrimSpace(text)
    IN  IF line = "" THEN [class |-> "empty"]
        ELSE IF HasPrefix(line, "# HELP ")
        THEN [class |-> "help", parts |-> SplitN2(SubSeq(line, 8, Len(line)), " ")]
        ELSE IF HasPrefix(line, "# TYPE ")
        THEN [class |-> "type", parts |-> Fields(SubSeq(line, 8, Len(line)))]
        ELSE IF HasPrefix(line, "#") THEN [class |-> "comment"]
        ELSE IF Contains(line, " ") THEN [class |-> "sample"]
        ELSE [class |-> "other"]

\* classify of every line of the model
classes == [line \in Lines |-> classify(line)]

\* one iteration of the loop of parsePrometheusFormat, on
\* st = [currentMetric, metrics, panicked]
ScanLine(st, line) ==
    LET c == classes[line]
    IN  IF c.class = "help"
        THEN IF Len(c.parts) >= 2
             THEN [st EXCEPT !.currentMetric =
                      [ZeroMetric EXCEPT !.Name = c.parts[1], !.Help = c.parts[2]]]
             ELSE st
        ELSE IF c.class = "type"
        THEN IF Len(c.parts) >= 2
             THEN [st EXCEPT !.currentMetric.Type = c.parts[2]]
             ELSE st
        ELSE IF c.class = "sample"
        THEN LET r == parseMetricLine(line, st.currentMetric)
             IN  IF r.kind = "panic" THEN [st EXCEPT !.panicked = TRUE]
                 ELSE IF r.kind = "error" THEN st
                 ELSE [st EXCEPT !.metrics = Append(st.metrics, r.metric)]
        ELSE st

\* parsePrometheusFormat of a whole body: the loop up to its end or a panic
RECURSIVE ScanAll(_, _)
ScanAll(st, body) ==
    IF body = <<>> \/ st.panicked THEN st
    ELSE ScanAll(ScanLine(st, Head(body)), Tail(body))

parsePrometheusFormat(body) ==
    ScanAll([currentMetric |-> ZeroMetric, metrics |-> <<>>, panicked |-> FALSE], body)

-----------------------------------------------------------------------------
(* The parser on its own, line by line *)

\* parsePrometheusFormat is called
ParseBegin ==
    /\ ~panicked
    /\ scanned # <<>>
    /\ scanned' = <<>>
    /\ currentMetric' = ZeroMetric
    /\ metrics' = <<>>
    /\ UNCHANGED <<cmVars, hccVars, cmcVars, umoVars, envVars, ctxVars, goVars>>
    /\ UNCHANGED <<labelled, panicked, realMetrics, realCounters, lastUpdate,
                   lastFetchError, response, now>>

\* scanner.Scan yields one more line
Scan ==
    /\ ~panicked
    /\ Len(scanned) < MaxLines
    /\ \E line \in Lines :
          LET st == ScanLine([currentMetric |-> currentMetric, metrics |-> metrics,
                              panicked |-> FALSE], line)
          IN  /\ scanned' = Append(scanned, line)
              /\ currentMetric' = st.currentMetric
              /\ metrics' = st.metrics
              /\ panicked' = st.panicked
    /\ UNCHANGED <<cmVars, hccVars, cmcVars, umoVars, envVars, ctxVars, goVars>>
    /\ UNCHANGED <<labelled, realMetrics, realCounters, lastUpdate, lastFetchError,
                   response, now>>

NextParser ==
    \/ ParseBegin
    \/ Scan

SpecParser == InitIdle /\ [][NextParser]_vars

-----------------------------------------------------------------------------
(* parseLabels on its own, on serialized label maps *)

LabelNames == {"l", "le", "job"}

LabelValues == {"", "x", "x,y", "a=b,c"}

\* the label maps over these names and values
LabelMaps == UNION {[S -> LabelValues] : S \in SUBSET LabelNames}

\* name="value" pairs joined by commas, in the given order of the names
RECURSIVE Serialize(_, _)
Serialize(labels, order) ==
    IF order = <<>> THEN ""
    ELSE Head(order) \o "=\"" \o labels[Head(order)] \o "\""
             \o (IF Len(order) > 1 THEN "," ELSE "")
             \o Serialize(labels, Tail(order))

\* parseLabels is called, once, with the serialization of a label map
ParseLabels ==
    /\ labelled = Nil
    /\ \E labels \in LabelMaps :
          \E order \in Orders(DOMAIN labels) :
              LET labelStr == Serialize(labels, order)
              IN  labelled' = [labels |-> labels, labelStr |-> labelStr,
                               parsed |-> parseLabels(labelStr)]
    /\ UNCHANGED <<cmVars, hccVars, cmcVars, umoVars, envVars, ctxVars, goVars>>
    /\ UNCHANGED <<scanned, currentMetric, metrics, panicked, realMetrics, realCounters,
                   lastUpdate, lastFetchError, response, now>>

NextLabels == ParseLabels

SpecLabels == InitIdle /\ [][NextLabels]_vars

-----------------------------------------------------------------------------
(* RealOpen5GSCollector: the fetch cycle and the registry *)

\* the function type of the collector of the model
nfType == NF_AMF

\* the labels updateInternalMetrics puts before those of the metric
OwnLabels == <<"component_id", "nf_type">>

\* Registry.MustRegister panics when Register returns an error: the name is
\* registered already, by the vector of the other kind, or the descriptor
\* is invalid (empty name, a label name twice)
MustRegisterPanics(st, name, labelNames) ==
    \/ name \in DOMAIN st.realMetrics \cup DOMAIN st.realCounters
    \/ name = ""
    \/ \E i, j \in 1..Len(labelNames) : i # j /\ labelNames[i] = labelNames[j]

\* updateInternalMetrics for one metric, its labels ranged over in the given
\* order, on st = [realMetrics, realCounters, panicked]; WithLabelValues
\* panics when it is given another number of values than the vector has
\* label names
UpdateOne(st, metric, order) ==
    LET labelNames == OwnLabels \o order
        labelValues == <<nfType, nfType>> \o [i \in 1..Len(order) |-> metric.Labels[order[i]]]
        newVec == [labelNames |-> labelNames, help |-> metric.Help, series |-> <<>>]
        Store(vecs, add, value) ==
            LET vec == IF metric.Name \in DOMAIN vecs THEN vecs[metric.Name] ELSE newVec
                stored == [vec EXCEPT !.series =
                              [lv \in DOMAIN vec.series \cup {labelValues} |->
                                  IF lv = labelValues
                                  THEN IF add
                                       THEN value + (IF lv \in DOMAIN vec.series
                                                     THEN vec.series[lv] ELSE 0)
                                       ELSE value
                                  ELSE vec.series[lv]]]
            IN  [n \in DOMAIN vecs \cup {metric.Name} |->
                    IF n = metric.Name THEN stored ELSE vecs[n]]
        Panics(vecs) ==
            IF metric.Name \in DOMAIN vecs
            THEN Len(vecs[metric.Name].labelNames) # Len(labelValues)
            ELSE MustRegisterPanics(st, metric.Name, labelNames)
    IN  IF metric.Type = "gauge"
        THEN IF Panics(st.realMetrics) THEN [st EXCEPT !.panicked = TRUE]
             ELSE [st EXCEPT !.realMetrics = Store(st.realMetrics, FALSE, metric.Value)]
        ELSE IF metric.Type = "counter"
        THEN IF Panics(st.realCounters) THEN [st EXCEPT !.panicked = TRUE]
             ELSE [st EXCEPT !.realCounters = Store(st.realCounters, TRUE, 0)]
        ELSE st

\* updateInternalMetrics: what it can leave, one result for every order in
\* which the label maps can be ranged over
RECURSIVE updateInternalMetrics(_, _)
updateInternalMetrics(st, fetchedMetrics) ==
    IF fetchedMetrics = <<>> \/ st.panicked THEN {st}
    ELSE UNION {updateInternalMetrics(UpdateOne(st, Head(fetchedMetrics), order),
                                      Tail(fetchedMetrics)) :
                   order \in Orders(DOMAIN Head(fetchedMetrics).Labels)}

\* the lines of the response bodies of the fetch cycles
BodyLines ==
    {"# TYPE a gauge", "# TYPE b counter", "a 1", "b 2", "a{l=\"x\"} 3", "a{ 6",
     "a{l=\"x\",m=\"y\"} 7"}

\* what the GET of one cycle can come back with: a transport error, a
\* status other than 200, a body that cannot be read to its end, or a body
Responses ==
    {[kind |-> "networkError"], [kind |-> "status", code |-> 503]}
    \cup {[kind |-> k, body |-> b] :
             k \in {"ok", "readError"},
             b \in {<<>>} \cup {<<l>> : l \in BodyLines}
                     \cup {<<l1, l2>> : l1 \in BodyLines, l2 \in BodyLines}}

\* a failed cycle that also drops what the collector had
fetchFailure_DropsMetrics(roc, err) ==
    [roc EXCEPT !.lastFetchError = err, !.realMetrics = <<>>, !.realCounters = <<>>,
                !.lastUpdate = 0]

\* the error returns of fetchAndParseMetrics, on
\* roc = [realMetrics, realCounters, lastUpdate, lastFetchError, panicked]
fetchFailure(roc, err) == [roc EXCEPT !.lastFetchError = err]

\* fetchAndParseMetrics at the given time: what it can leave
fetchAndParseMetrics(roc, resp, time) ==
    IF resp.kind = "networkError"
    THEN {fetchFailure(roc, "failed to fetch from Open5GS")}
    ELSE IF resp.kind = "status"
    THEN {fetchFailure(roc, "Open5GS returned status")}
    ELSE LET parsed == parsePrometheusFormat(resp.body)
         IN  IF parsed.panicked THEN {[roc EXCEPT !.panicked = TRUE]}
             ELSE IF resp.kind = "readError"
             THEN {fetchFailure(roc, "failed to parse metrics")}
             ELSE {IF st.panicked
                   THEN [roc EXCEPT !.realMetrics = st.realMetrics,
                                    !.realCounters = st.realCounters,
                                    !.panicked = TRUE]
                   ELSE [roc EXCEPT !.realMetrics = st.realMetrics,
                                    !.realCounters = st.realCounters,
                                    !.lastUpdate = time,
                                    !.lastFetchError = ""] :
                      st \in updateInternalMetrics(
                                 [realMetrics |-> roc.realMetrics,
                                  realCounters |-> roc.realCounters,
                                  panicked |-> FALSE],
                                 parsed.metrics)}

\* one cycle of startMetricsCollection: the initial fetch or a tick
Fetch ==
    /\ ~panicked
    /\ now < MaxFetches
    /\ now' = now + 1
    /\ \E resp \in Responses :
          /\ response' = resp
          /\ \E roc \in fetchAndParseMetrics(
                            [realMetrics |-> realMetrics, realCounters |-> realCounters,
                             lastUpdate |-> lastUpdate, lastFetchError |-> lastFetchError,
                             panicked |-> FALSE], resp, now') :
                /\ realMetrics' = roc.realMetrics
                /\ realCounters' = roc.realCounters
                /\ lastUpdate' = roc.lastUpdate
                /\ lastFetchError' = roc.lastFetchError
                /\ panicked' = roc.panicked
    /\ UNCHANGED <<cmVars, hccVars, cmcVars, umoVars, envVars, ctxVars, goVars, parseVars>>

\* a poll interval goes by in which the loop of startMetricsCollection does
\* not get to fetch
Late ==
    /\ ~panicked
    /\ now < MaxClock
    /\ now' = now + 1
    /\ UNCHANGED <<cmVars, hccVars, cmcVars, umoVars, envVars, ctxVars, goVars, parseVars>>
    /\ UNCHANGED <<panicked, realMetrics, realCounters, lastUpdate, lastFetchError, response>>

\* the poll interval of startMetricsCollection and the age handleHealthCheck
\* compares with, in seconds
pollInterval == 5

staleAfter == 30

\* a handler that lets a failed fetch hide a stale one
handleHealthCheck_ErrorFirst ==
    IF lastFetchError # "" THEN "degraded"
    ELSE IF lastUpdate = 0 \/ (now - lastUpdate) * pollInterval > staleAfter
    THEN "unhealthy"
    ELSE "healthy"

\* handleHealthCheck: the status it reports; the zero lastUpdate is older
\* than any age
handleHealthCheck ==
    IF lastUpdate = 0 \/ (now - lastUpdate) * pollInterval > staleAfter
    THEN "unhealthy"
    ELSE IF lastFetchError # "" THEN "degraded"
    ELSE "healthy"

NextCollector ==
    \/ Fetch
    \/ Late

SpecCollector == InitIdle /\ [][NextCollector]_vars

-----------------------------------------------------------------------------
(* The periodic loops, their network calls and the root context *)

fetchTimeout == 10
probeTimeout == 5

\* the seconds after which a call gives up by itself: http.Client.Timeout of
\* the collector, config.Timeout of the prober; the calls of the sampler have
\* no timeout of their own
callTimeout == [fetch |-> fetchTimeout, probe |-> probeTimeout]

\* the calls that are handed the context of their loop: ContainerList and
\* ContainerStats of the sampler. httpClient.Get takes none, and the probes
\* build theirs from context.Background()
usesCtx(l) == l = "sample"

SetCall(l, pc1, elapsed, err) ==
    calls' = [calls EXCEPT ![l] = [pc |-> pc1, elapsed |-> elapsed, err |-> err]]

\* the goroutine of the loop starts; collector and prober make their first
\* call before they reach the select
LoopStarts(l) ==
    /\ calls[l].pc = "new"
    /\ SetCall(l, IF l = "sample" THEN "select" ELSE "inFlight", 0, "")
    /\ UNCHANGED <<cmVars, hccVars, cmcVars, umoVars, envVars, rocVars, ctxDone, goVars>>

\* case <-ticker.C: the select can take it although the context is done, when
\* both are ready. The sampler then tests the context before it calls out.
TickerFires(l) ==
    /\ calls[l].pc = "select"
    /\ IF l = "sample" /\ ctxDone
       THEN SetCall(l, "select", 0, "canceled")
       ELSE SetCall(l, "inFlight", 0, "")
    /\ UNCHANGED <<cmVars, hccVars, cmcVars, umoVars, envVars, rocVars, ctxDone, goVars>>

\* case <-ctx.Done(): the loop returns
LoopReturns(l) ==
    /\ calls[l].pc = "select"
    /\ ctxDone
    /\ SetCall(l, "returned", 0, calls[l].err)
    /\ UNCHANGED <<cmVars, hccVars, cmcVars, umoVars, envVars, rocVars, ctxDone, goVars>>

\* the peer answers, or refuses, and the call returns
Responds(l) ==
    /\ calls[l].pc = "inFlight"
    /\ SetCall(l, "select", 0, "")
    /\ UNCHANGED <<cmVars, hccVars, cmcVars, umoVars, envVars, rocVars, ctxDone, goVars>>

\* a second passes with the call still waiting for its peer
Waits(l) ==
    /\ calls[l].pc = "inFlight"
    /\ calls[l].elapsed < (IF l \in DOMAIN callTimeout THEN callTimeout[l] ELSE MaxWait)
    /\ SetCall(l, "inFlight", calls[l].elapsed + 1, "")
    /\ UNCHANGED <<cmVars, hccVars, cmcVars, umoVars, envVars, rocVars, ctxDone, goVars>>

\* the call's own timeout ends it
TimesOut(l) ==
    /\ calls[l].pc = "inFlight"
    /\ l \in DOMAIN callTimeout
    /\ calls[l].elapsed = callTimeout[l]
    /\ SetCall(l, "select", 0, "timeout")
    /\ UNCHANGED <<cmVars, hccVars, cmcVars, umoVars, envVars, rocVars, ctxDone, goVars>>

\* the context of the call is done and ends it
Aborted(l) ==
    /\ calls[l].pc = "inFlight"
    /\ usesCtx(l)
    /\ ctxDone
    /\ SetCall(l, "select", 0, "canceled")
    /\ UNCHANGED <<cmVars, hccVars, cmcVars, umoVars, envVars, rocVars, ctxDone, goVars>>

\* main cancels the root context
CancelRoot ==
    /\ ~ctxDone
    /\ ctxDone' = TRUE
    /\ UNCHANGED <<cmVars, hccVars, cmcVars, umoVars, envVars, rocVars, calls, goVars>>

NextLoops ==
    \/ CancelRoot
    \/ \E l \in LoopNames : LoopStarts(l)
    \/ \E l \in LoopNames : TickerFires(l)
    \/ \E l \in LoopNames : LoopReturns(l)
    \/ \E l \in LoopNames : Responds(l)
    \/ \E l \in LoopNames : Waits(l)
    \/ \E l \in LoopNames : TimesOut(l)
    \/ \E l \in LoopNames : Aborted(l)

SpecLoops == InitIdle /\ [][NextLoops]_vars

-----------------------------------------------------------------------------
(* The goroutines of the health and the container collector, statement by  *)
(* statement: neither collector has a mutex, so a goroutine takes its next  *)
(* step whatever the others are at                                          *)

\* the statements that come after `at` in the code goroutine g runs
Successors(g, at) ==
    IF g = "/health/metrics"
    THEN \* handleMetricsRequest -> generatePrometheusMetrics: range healthCache
         IF at = "idle" THEN {"range healthCache"} ELSE {"idle"}
    ELSE IF g = "/health/status"
    THEN \* handleHealthStatusRequest: maps.Clone, then generateHealthSummary
         IF at = "idle" THEN {"maps.Clone(healthCache)"}
         ELSE IF at = "maps.Clone(healthCache)" THEN {"range healthCache"}
         ELSE {"idle"}
    ELSE IF g = "/container/metrics"
    THEN \* handleMetricsRequest -> generatePrometheusMetrics: range statsCache
         IF at = "idle" THEN {"range statsCache"} ELSE {"idle"}
    ELSE IF g = "prober"
    THEN \* performAllHealthChecks: updateComponentHealth inside the range
         IF at = "idle" THEN {"range checkConfigs"}
         ELSE IF at = "range checkConfigs" THEN {"healthCache[componentID] =", "idle"}
         ELSE {"range checkConfigs"}
    ELSE IF g = "sampler"
    THEN \* collectAllContainerStats: the store at the end of each iteration
         IF at = "idle" THEN {"range Components"}
         ELSE IF at = "range Components" THEN {"statsCache[name] =", "idle"}
         ELSE {"range Components"}
    ELSE \* UpdateTopology -> generateHealthCheckConfigs: a new map, then filled
         IF at = "idle" THEN {"checkConfigs = make"} ELSE {"idle"}

\* the maps a goroutine at statement `at` is reading
Reading(at) ==
    IF at \in {"range healthCache", "maps.Clone(healthCache)"} THEN {"healthCache"}
    ELSE IF at = "range statsCache" THEN {"statsCache"}
    ELSE IF at = "range checkConfigs" THEN {"checkConfigs"}
    ELSE IF at = "healthCache[componentID] =" THEN {"checkConfigs", "healthCache"}
    ELSE {}

\* the maps a goroutine at statement `at` is writing
Writing(at) ==
    IF at = "healthCache[componentID] =" THEN {"healthCache"}
    ELSE IF at = "statsCache[name] =" THEN {"statsCache"}
    ELSE IF at = "checkConfigs = make" THEN {"checkConfigs"}
    ELSE {}

GoStep(g) ==
    /\ \E at \in Successors(g, goroutines[g]) :
          goroutines' = [goroutines EXCEPT ![g] = at]
    /\ UNCHANGED <<cmVars, hccVars, cmcVars, umoVars, envVars, rocVars, ctxVars, rcoVars,
                   rcmVars>>

\* a request is served
Handles == \E g \in Handlers : GoStep(g)

\* performHealthChecksPeriodically
Probes == GoStep("prober")

\* collectMetricsPeriodically
Samples == GoStep("sampler")

\* updateMetricsConfiguration calls healthCollector.UpdateTopology
Replaces == GoStep("orchestrator")

NextRaces ==
    \/ Handles
    \/ Probes
    \/ Samples
    \/ Replaces

SpecRaces == InitIdle /\ [][NextRaces]_vars

-----------------------------------------------------------------------------
(* RealCollectorOrchestrator: Start, Stop and WaitForHealthy, each called   *)
(* on a goroutine of its own, and the RWMutex they take                     *)

SetRcoCall(c, pc1, timeout, elapsed, err) ==
    rcoCalls' = [rcoCalls EXCEPT ![c] =
                    [pc |-> pc1, timeout |-> timeout, elapsed |-> elapsed, err |-> err]]

\* sync.RWMutex: Lock is granted when nobody holds the mutex
CanLock == rcoMu.writer = "" /\ rcoMu.readers = {}

\* sync.RWMutex: RLock is granted when no writer holds the mutex and none is
\* blocked in Lock (a blocked Lock keeps new readers out)
CanRLock ==
    /\ rcoMu.writer = ""
    /\ \A c \in {"Start", "Stop"} : rcoCalls[c].pc # "Lock"

\* a call reaches its first statement, rco.mu.Lock() or rco.mu.RLock();
\* WaitForHealthy is given its timeout
RcoCalled(c) ==
    /\ rcoCalls[c].pc = "idle"
    /\ IF c = "WaitForHealthy"
       THEN \E timeout \in 1..MaxTimeout : SetRcoCall(c, "RLock", timeout, 0, "")
       ELSE SetRcoCall(c, "Lock", 0, 0, "")
    /\ UNCHANGED <<rcoMu, rcoStatus, rcoCtxDone>>
    /\ UNCHANGED <<cmVars, hccVars, cmcVars, umoVars, envVars, rocVars, ctxVars, goroutines,
                   rcmVars>>

\* Start gets the mutex and sets the status
RcoStartLocks ==
    /\ rcoCalls["Start"].pc = "Lock"
    /\ CanLock
    /\ rcoMu' = [rcoMu EXCEPT !.writer = "Start"]
    /\ rcoStatus' = "starting"
    /\ SetRcoCall("Start", "locked", 0, 0, "")
    /\ UNCHANGED rcoCtxDone
    /\ UNCHANGED <<cmVars, hccVars, cmcVars, umoVars, envVars, rocVars, ctxVars, goroutines,
                   rcmVars>>

\* Start returns, with one of its three errors or with nil, and unlocks
RcoStartReturns ==
    /\ rcoCalls["Start"].pc = "locked"
    /\ \E err \in {"failed to discover topology", "failed to initialize collectors",
                   "failed to start collectors", ""} :
          /\ rcoStatus' = IF err = "" THEN "running" ELSE "failed"
          /\ SetRcoCall("Start", "returned", 0, 0, err)
    /\ rcoMu' = [rcoMu EXCEPT !.writer = ""]
    /\ UNCHANGED rcoCtxDone
    /\ UNCHANGED <<cmVars, hccVars, cmcVars, umoVars, envVars, rocVars, ctxVars, goroutines,
                   rcmVars>>

\* Stop gets the mutex, cancels the context, sets the status, unlocks and
\* returns: nothing in it blocks once it has the mutex
RcoStop ==
    /\ rcoCalls["Stop"].pc = "Lock"
    /\ CanLock
    /\ rcoCtxDone' = TRUE
    /\ rcoStatus' = "stopped"
    /\ SetRcoCall("Stop", "returned", 0, 0, "")
    /\ UNCHANGED rcoMu
    /\ UNCHANGED <<cmVars, hccVars, cmcVars, umoVars, envVars, rocVars, ctxVars, goroutines,
                   rcmVars>>

\* WaitForHealthy gets the read lock; it returns at once when the status is
\* not "running", and goes to its select, the lock held, when it is
RcoWaitLocks ==
    /\ rcoCalls["WaitForHealthy"].pc = "RLock"
    /\ CanRLock
    /\ IF rcoStatus # "running"
       THEN /\ SetRcoCall("WaitForHealthy", "returned",
                          rcoCalls["WaitForHealthy"].timeout, 0,
                          "orchestrator not running")
            /\ UNCHANGED rcoMu
       ELSE /\ SetRcoCall("WaitForHealthy", "select",
                          rcoCalls["WaitForHealthy"].timeout, 0, "")
            /\ rcoMu' = [rcoMu EXCEPT !.readers = @ \cup {"WaitForHealthy"}]
    /\ UNCHANGED <<rcoStatus, rcoCtxDone>>
    /\ UNCHANGED <<cmVars, hccVars, cmcVars, umoVars, envVars, rocVars, ctxVars, goroutines,
                   rcmVars>>

\* one round of WaitForHealthy's select: the case of the done context, when
\* it is done, or the case of the ticker, a second later, which returns the
\* timeout error past the deadline and nil when every collector is healthy;
\* the deferred RUnlock runs at each return
RcoWaitSelects ==
    /\ rcoCalls["WaitForHealthy"].pc = "select"
    /\ LET call == rcoCalls["WaitForHealthy"]
           Return(elapsed, err) ==
               /\ SetRcoCall("WaitForHealthy", "returned", call.timeout, elapsed, err)
               /\ rcoMu' = [rcoMu EXCEPT !.readers = @ \ {"WaitForHealthy"}]
       IN  \/ /\ rcoCtxDone
              /\ Return(call.elapsed, "orchestrator context cancelled")
           \/ IF call.elapsed + 1 > call.timeout
              THEN Return(call.elapsed + 1, "timeout waiting for healthy collectors")
              ELSE \E allHealthy \in BOOLEAN :
                      IF allHealthy
                      THEN Return(call.elapsed + 1, "")
                      ELSE /\ SetRcoCall("WaitForHealthy", "select", call.timeout,
                                         call.elapsed + 1, "")
                           /\ UNCHANGED rcoMu
    /\ UNCHANGED <<rcoStatus, rcoCtxDone>>
    /\ UNCHANGED <<cmVars, hccVars, cmcVars, umoVars, envVars, rocVars, ctxVars, goroutines,
                   rcmVars>>

NextRco ==
    \/ \E c \in {"Start", "Stop", "WaitForHealthy"} : RcoCalled(c)
    \/ RcoStartLocks
    \/ RcoStartReturns
    \/ RcoStop
    \/ RcoWaitLocks
    \/ RcoWaitSelects

SpecRco == InitIdle /\ [][NextRco]_vars

-----------------------------------------------------------------------------
(* RealCollectorManager *)

\* InitializeCollectors: the collector port and the Open5GS metrics port of
\* each supported NF
nfConfigs ==
    [amf |-> [nfType |-> NF_AMF, port |-> 9091, open5gsPort |-> 9091],
     smf |-> [nfType |-> NF_SMF, port |-> 9092, open5gsPort |-> 9091],
     pcf |-> [nfType |-> NF_PCF, port |-> 9093, open5gsPort |-> 9091],
     upf |-> [nfType |-> NF_UPF, port |-> 9094, open5gsPort |-> 9091],
     mme |-> [nfType |-> NF_MME, port |-> 9095, open5gsPort |-> 9091],
     pcrf |-> [nfType |-> NF_PCRF, port |-> 9096, open5gsPort |-> 9091]]

\* containsNF
containsNF(componentName, nfName) == Contains(ToLower(componentName), nfName)

\* the NF names of nfConfigs the component name contains
nfNamesOf == [n \in RcmNames |-> {nfName \in DOMAIN nfConfigs : containsNF(n, nfName)}]

\* NewRealOpen5GSCollector, the fields the manager reads
NewRealOpen5GSCollector(type, port, componentIP, open5gsPort) ==
    [nfType |-> type, port |-> port, componentIP |-> componentIP,
     open5gsPort |-> open5gsPort]

\* the body of InitializeCollectors' inner loop for a component whose name
\* contains nfName
collectorFor(componentName, component, nfName) ==
    LET config == nfConfigs[nfName]
    IN  NewRealOpen5GSCollector(config.nfType, config.port, component.IP,
                                config.open5gsPort)

\* InitializeCollectors: the tables it can leave; a running component gets
\* the collector of the first NF name the range over nfConfigs yields that
\* its name contains, entries of earlier calls stay
InitializeCollectors(colls, topology) ==
    LET c == topology.Components
        supported == {n \in DOMAIN c : c[n].IsRunning /\ nfNamesOf[n] # {}}
    IN  {[n \in DOMAIN colls \cup supported |->
             IF n \in supported THEN collectorFor(n, c[n], pick[n]) ELSE colls[n]] :
            pick \in {f \in [supported -> DOMAIN nfConfigs] :
                         \A n \in supported : f[n] \in nfNamesOf[n]}}

RcmInitializeCollectors ==
    /\ \E topology \in Topologies(RcmNames) :
          /\ rcmTopology' = topology
          /\ rcmCollectors' \in InitializeCollectors(rcmCollectors, topology)
    /\ UNCHANGED rcmStarted
    /\ UNCHANGED <<cmVars, hccVars, cmcVars, umoVars, envVars, rocVars, ctxVars, goroutines,
                   rcoVars>>

\* StartAll: a goroutine for every collector of the table, or the error
\* return when the table is empty
RcmStartAll ==
    /\ rcmCollectors # <<>>
    /\ rcmStarted' = rcmStarted \cup DOMAIN rcmCollectors
    /\ UNCHANGED <<rcmTopology, rcmCollectors>>
    /\ UNCHANGED <<cmVars, hccVars, cmcVars, umoVars, envVars, rocVars, ctxVars, goroutines,
                   rcoVars>>

NextRcm ==
    \/ RcmInitializeCollectors
    \/ RcmStartAll

SpecRcm == InitIdle /\ [][NextRcm]_vars

-----------------------------------------------------------------------------
(* Properties of the collector manager *)

\* the running components of a topology that detectNFType puts in one of the
\* six NF types
RunningRecognized(topology) ==
    LET c == topology.Components
    IN  {n \in DOMAIN c : c[n].IsRunning /\ detected[n][c[n].Type] \in NFTypes}

\* C1: when UpdateTopology has returned, the names with a collector record
\* and a cancel func are exactly the running components of that topology
\* whose NF type is one of the six; stopped, absent and unrecognized
\* components have neither.
C1_CollectorsAreRunningRecognized ==
    cmLastCall = "UpdateTopology" =>
        /\ DOMAIN collectors = RunningRecognized(cmTopology)
        /\ DOMAIN running = RunningRecognized(cmTopology)

C1_Witness ==
    /\ cmLastCall = "UpdateTopology"
    /\ DOMAIN cmTopology.Components = {"amf", "smf", "webui"}
    /\ cmTopology.Components["amf"].IsRunning
    /\ ~cmTopology.Components["smf"].IsRunning
    /\ cmTopology.Components["webui"].IsRunning
    /\ DOMAIN collectors = {"amf"}
    /\ Len(instances) = 2

\* C2: an UpdateTopology call that follows an UpdateTopology call with the
\* same topology starts no collector, cancels none and leaves the table as
\* it was.
C2_ReconcileIdempotent ==
    [][(cmLastCall = "UpdateTopology" /\ CMUpdateTopology(cmTopology)) =>
           /\ collectors' = collectors
           /\ running' = running
           /\ instances' = instances]_vars

C2_Witness ==
    /\ cmRepeated
    /\ Cardinality(DOMAIN collectors) = 2
    /\ \E i \in DOMAIN instances : instances[i].cancelCalls = 1

\* C3: a pass whose topology no longer has a collector's component running
\* cancels that collector and deletes its record in that pass; no context is
\* ever cancelled twice, a later Stop included; and a record appears only for
\* a name the topology of the pass lists as running and recognized.
C3_Step ==
    /\ \A n \in DOMAIN collectors :
          (cmLastCall' = "UpdateTopology" /\ n \notin RunningRecognized(cmTopology')) =>
              /\ n \notin DOMAIN collectors'
              /\ n \notin DOMAIN running'
              /\ instances'[collectors[n].id].cancelCalls = 1
    /\ \A i \in DOMAIN instances' : instances'[i].cancelCalls <= 1
    /\ \A n \in DOMAIN collectors' :
          (n \notin DOMAIN collectors \/ collectors'[n].id # collectors[n].id) =>
              /\ cmLastCall' = "UpdateTopology"
              /\ n \in RunningRecognized(cmTopology')

C3_CancelledOnceAndRemoved == [][C3_Step]_vars

C3_Witness ==
    /\ cmLastCall = "Stop"
    /\ \E i, j \in DOMAIN instances :
          /\ i < j
          /\ instances[i].componentName = instances[j].componentName
          /\ instances[i].cancelCalls = 1
          /\ instances[j].cancelCalls = 1

\* C4: from an empty table, {amf running, smf stopped} leaves one collector,
\* amf's on the AMF port, and none for smf; after the flip to {amf stopped,
\* smf running} the next pass cancels amf's collector and starts one for smf
\* on the SMF port.
C4_First ==
    CHOOSE t \in CMTopologies :
        /\ DOMAIN t.Components = {"amf", "smf"}
        /\ t.Components["amf"].IsRunning
        /\ ~t.Components["smf"].IsRunning

C4_Flipped ==
    CHOOSE t \in CMTopologies :
        /\ DOMAIN t.Components = {"amf", "smf"}
        /\ ~t.Components["amf"].IsRunning
        /\ t.Components["smf"].IsRunning

C4_Step ==
    /\ (collectors = <<>> /\ CMUpdateTopology(C4_First)) =>
          /\ DOMAIN collectors' = {"amf"}
          /\ DOMAIN running' = {"amf"}
          /\ collectors'["amf"].nfType = NF_AMF
          /\ collectors'["amf"].port = 9091
    /\ (DOMAIN collectors = {"amf"} /\ cmTopology = C4_First /\ CMUpdateTopology(C4_Flipped)) =>
          /\ DOMAIN collectors' = {"smf"}
          /\ DOMAIN running' = {"smf"}
          /\ collectors'["smf"].nfType = NF_SMF
          /\ collectors'["smf"].port = 9092
          /\ collectors'["smf"].id = Len(instances) + 1
          /\ instances'[collectors["amf"].id].cancelCalls = 1

C4_FlipScenario == [][C4_Step]_vars

C4_Witness ==
    /\ cmTopology = C4_Flipped
    /\ cmLastCall = "UpdateTopology"
    /\ Len(instances) = 2
    /\ instances[1].componentName = "amf" /\ instances[1].port = 9091
    /\ instances[1].cancelCalls = 1
    /\ instances[2].componentName = "smf" /\ instances[2].port = 9092
    /\ instances[2].cancelCalls = 0
    /\ DOMAIN collectors = {"smf"}

\* the collectors of the table a pass has just started
Started(before, after) ==
    {n \in DOMAIN after : n \notin DOMAIN before \/ after[n].id # before[n].id}

\* the port of n is the smallest one from its type's base port on that none
\* of the collectors `others` holds
SmallestFreePort(colls, n, others) ==
    LET base == portMap[colls[n].nfType]
    IN  /\ colls[n].port >= base
        /\ \A q \in base..(colls[n].port - 1) : \E m \in others : colls[m].port = q
        /\ \A m \in others : colls[m].port # colls[n].port

\* C5 as claimed: a started collector gets the smallest port from its type's
\* base port on that no live collector of the same type holds.
C5_PortPastSameTypeOnly ==
    [][\A n \in Started(collectors, collectors') :
          SmallestFreePort(collectors', n,
              {m \in DOMAIN collectors' \ {n} :
                  collectors'[m].nfType = collectors'[n].nfType})]_vars

\* C5, amended: a started collector gets the smallest port from its type's
\* base port on that no live collector of any type holds.
C5_PortPastEveryLiveCollector ==
    [][\A n \in Started(collectors, collectors') :
          SmallestFreePort(collectors', n, DOMAIN collectors' \ {n})]_vars

C5_Witness ==
    /\ DOMAIN collectors = {"amf", "amf2", "smf"}
    /\ {collectors["amf"].port, collectors["amf2"].port} = {9091, 9092}
    /\ collectors["smf"].port = 9093

\* C6 as claimed: a required component whose collector failed to start, its
\* server having failed to bind the port, is started again by the next pass
\* that still requires it.
C6_FailedStartIsRetried ==
    [][\A t \in ServerTopologies : CMUpdateTopology(t) =>
          \A n \in DOMAIN collectors \cap RunningRecognized(t) :
              instances[collectors[n].id].server = "bindFailed" =>
                  collectors'[n].id # collectors[n].id]_vars

-----------------------------------------------------------------------------
(* Properties of the health prober *)

\* C8 as claimed: once UpdateTopology has been given a topology without a
\* component, the health cache has no entry for it.
C8_VanishedHealthEntryPurged ==
    hccTopology # Nil => DOMAIN healthCache \subseteq DOMAIN hccTopology.Components

\* a <= b for fractions with positive denominators
FracLE(a, b) == a[1] * b[2] <= b[1] * a[2]

\* C10 as claimed: every entry of the health cache has a success rate
\* between 0 and 100.
C10_SuccessRateWithinBounds ==
    \A n \in DOMAIN healthCache :
        /\ FracLE(<<0, 1>>, healthCache[n].SuccessRate)
        /\ FracLE(healthCache[n].SuccessRate, <<100, 1>>)

-----------------------------------------------------------------------------
(* Properties of the resource sampler *)

\* C9 as claimed: once UpdateTopology has been given a topology without a
\* component, neither the container-stats cache nor the table of previous
\* CPU samples has an entry for it.
C9_VanishedStatsEntryPurged ==
    cmcTopology # Nil =>
        /\ DOMAIN statsCache \subseteq DOMAIN cmcTopology.Components
        /\ DOMAIN lastCPUStats \subseteq DOMAIN cmcTopology.Components

-----------------------------------------------------------------------------
(* Properties of the orchestrator *)

\* C7 as claimed: on every run the containers of which stop changing, with
\* ticks that keep succeeding, the live collectors eventually are, and stay,
\* exactly the running recognized components, whatever discoveries and
\* writes failed before.
C7_EventuallyConverges ==
    <>[](pc = "running" =>
            \A t \in DiscoverTopology(containers) :
                DOMAIN collectors = RunningRecognized(t))

-----------------------------------------------------------------------------
(* Properties of the health counters *)

\* how many probes of the log failed
RECURSIVE Failures(_)
Failures(log) ==
    IF log = <<>> THEN 0
    ELSE (IF Head(log) = HealthStatusDown THEN 1 ELSE 0) + Failures(Tail(log))

\* the length of the run of failed probes the log ends with
RECURSIVE TrailingFailures(_)
TrailingFailures(log) ==
    IF log = <<>> \/ log[Len(log)] # HealthStatusDown THEN 0
    ELSE 1 + TrailingFailures(SubSeq(log, 1, Len(log) - 1))

\* C11 as claimed: after n probes of a component of which k failed, in any
\* order, its SuccessRate is (n - k) / n * 100 and its TotalChecks is n.
C11_SuccessRateIsRatioOfHistory ==
    \A c \in DOMAIN healthCache :
        LET n == Len(probed[c])
            k == Failures(probed[c])
            rate == healthCache[c].SuccessRate
        IN  /\ healthCache[c].TotalChecks = n
            /\ rate[1] * n = 100 * (n - k) * rate[2]

\* C12: ConsecutiveFails of every component is the length of the run of
\* failed probes its history ends with: 0 right after a successful probe,
\* one more than before after a failed one.
C12_ConsecutiveFailsIsTrailingRun ==
    \A c \in DOMAIN healthCache :
        healthCache[c].ConsecutiveFails = TrailingFailures(probed[c])

\* a component that failed twice in a row after a success, and one whose
\* failures were followed by a success
C12_Witness ==
    /\ \E c \in DOMAIN healthCache :
          /\ probed[c] = <<HealthStatusUp, HealthStatusDown, HealthStatusDown>>
          /\ healthCache[c].ConsecutiveFails = 2
    /\ \E c \in DOMAIN healthCache :
          /\ probed[c] = <<HealthStatusDown, HealthStatusDown, HealthStatusUp>>
          /\ healthCache[c].ConsecutiveFails = 0

-----------------------------------------------------------------------------
(* Properties of the CPU percentage *)

\* a step of the sampler that is not a change of its topology is a sweep
SweepStep == cmcTopology # Nil /\ UNCHANGED cmcTopology

\* what a sweep stored for the components it took a snapshot with cpu_stats
\* of: expected(n, prev, cur) is the value a sample with rising counters
\* must have
CPUPercentAfterSweep(expected(_, _, _)) ==
    SweepStep =>
        \A n \in DOMAIN lastSample' :
            lastSample'[n].kind = "sample" =>
                LET cur == lastSample'[n]
                    percent == statsCache'[n].CPUPercent
                IN  /\ n \notin DOMAIN lastCPUStats => percent[1] = 0
                    /\ percent[1] >= 0 /\ percent[2] > 0
                    /\ (/\ n \in DOMAIN lastCPUStats
                        /\ cur.total_usage > lastCPUStats[n].TotalUsage
                        /\ cur.system_cpu_usage > lastCPUStats[n].SystemUsage)
                       => LET e == expected(n, lastCPUStats[n], cur)
                          IN  percent[1] * e[2] = e[1] * percent[2]

DeltaTimesOnlineCPUs(n, prev, cur) ==
    <<(cur.total_usage - prev.TotalUsage) * cur.online_cpus * 100,
      cur.system_cpu_usage - prev.SystemUsage>>

DeltaTimesNumCPUs(n, prev, cur) ==
    <<(cur.total_usage - prev.TotalUsage)
          * (IF cur.online_cpus = 0 THEN 1 ELSE cur.online_cpus) * 100,
      cur.system_cpu_usage - prev.SystemUsage>>

\* C13 as claimed: CPU percent is 0 on the first sample of a component,
\* never negative, and on a later sample with both counters risen it is
\* (delta total_usage / delta system_usage) x onlineCPUs x 100 against the
\* sample before.
C13_CPUPercentTimesOnlineCPUs ==
    [][CPUPercentAfterSweep(DeltaTimesOnlineCPUs)]_vars

\* C13 amended: the same with the number of CPUs taken as 1 when
\* online_cpus is 0 or missing.
C13_CPUPercentTimesNumCPUs ==
    [][CPUPercentAfterSweep(DeltaTimesNumCPUs)]_vars

\* a sweep stored a positive percentage from a snapshot without online_cpus,
\* and the counters are those of that snapshot
C13_Witness ==
    \E n \in DOMAIN lastSample :
        /\ lastSample[n].kind = "sample"
        /\ lastSample[n].online_cpus = 0
        /\ statsCache[n].CPUPercent = <<200, 1>>
        /\ lastCPUStats[n].TotalUsage = lastSample[n].total_usage

-----------------------------------------------------------------------------
(* Properties of the parser *)

\* the sample lines of the model that are valid exposition format
ValidSamples == {"a 1", "b 2", "a{l=\"x\"} 3", "a{l=\"x y\"} 4"}

\* its lines that are valid and are not samples
ValidNonSamples ==
    {"", "# plain comment", "# HELP a requests", "# TYPE a gauge", "# TYPE b counter"}

\* its sample lines with a malformed value or malformed label syntax
MalformedSamples == {"a x", "a{l} 5", "a{ 6"}

\* the step scans this line
Scans(line) == scanned' = Append(scanned, line)

\* the step appends a metric
Emits == Len(metrics') = Len(metrics) + 1

\* the lines scanned so far that are "# HELP name ..." or "# TYPE name ..."
TemplateLines(class, name) ==
    {i \in 1..Len(scanned) :
        /\ classes[scanned[i]].class = class
        /\ classes[scanned[i]].parts[1] = name}

\* C14 as claimed: of a valid input, every sample line, those with spaces
\* inside quoted label values included, has given exactly one metric, and
\* HELP, TYPE, comment and blank lines none.
C14_OneMetricPerSampleLine ==
    (\A i \in 1..Len(scanned) : scanned[i] \in ValidSamples \cup ValidNonSamples)
        => /\ ~panicked
           /\ Len(metrics) = Cardinality({i \in 1..Len(scanned) : scanned[i] \in ValidSamples})

\* C15 as claimed: the kind of an emitted metric is the kind of the last
\* TYPE line of its own name, and is never taken from a TYPE line of another
\* name.
C15_KindOfOwnTypeLine ==
    [][Emits =>
        LET m == metrics'[Len(metrics')]
            own == TemplateLines("type", m.Name)
            last == CHOOSE i \in own : \A j \in own : j <= i
        IN  IF own # {}
            THEN m.Type = classes[scanned[last]].parts[2]
            ELSE \A i \in 1..Len(scanned) :
                    classes[scanned[i]].class = "type"
                        => m.Type # classes[scanned[i]].parts[2]]_vars

\* C16 as claimed: a sample with no HELP or TYPE line of its name before it
\* is emitted with kind "unknown" and help "no description".
C16_DefaultsWithoutTemplate ==
    [][Emits =>
        LET m == metrics'[Len(metrics')]
        IN  TemplateLines("type", m.Name) \cup TemplateLines("help", m.Name) = {}
                => m.Type = "unknown" /\ m.Help = "no description"]_vars

\* C18 as claimed: a sample line with a malformed value or malformed labels
\* adds no metric and does not end the parse, and a well-formed sample line
\* is emitted whatever came before it.
C18_MalformedLineSkipped ==
    [][/\ \A line \in MalformedSamples :
              Scans(line) => metrics' = metrics /\ ~panicked'
       /\ \A line \in {"a 1", "b 2", "a{l=\"x\"} 3"} :
              Scans(line) => Emits]_vars

-----------------------------------------------------------------------------
(* Properties of parseLabels *)

\* C17: parseLabels of the serialization of a label map, whose values may
\* contain commas, is that label map.
C17_LabelsRoundTrip ==
    labelled # Nil => labelled.parsed = labelled.labels

\* three labels, two of them with commas inside the quotes, came back
C17_Witness ==
    /\ labelled # Nil
    /\ labelled.labelStr = "job=\"x,y\",l=\"a=b,c\",le=\"\""
    /\ DOMAIN labelled.parsed = LabelNames
    /\ labelled.parsed["job"] = "x,y"
    /\ labelled.parsed["l"] = "a=b,c"

-----------------------------------------------------------------------------
(* Properties of the fetch cycle *)

\* C19 as claimed: whatever the bodies of the cycles so far, parsing them and
\* folding the metrics into the registry has not panicked.
C19_NoPanic == ~panicked

\* C20: a cycle that fails with a transport error or a status other than 200
\* records the error, leaves every registered value and the time of the last
\* successful fetch as they were, and leaves the collector ready to fetch
\* again.
C20_FailedFetchKeepsLastKnownGood ==
    [][(/\ now' = now + 1
        /\ response' # Nil
        /\ response'.kind \in {"networkError", "status"})
        => /\ lastFetchError' # ""
           /\ UNCHANGED <<realMetrics, realCounters, lastUpdate>>
           /\ ~panicked']_vars

\* after a failed cycle the collector still holds the gauge and the time of
\* an earlier, successful one
C20_Witness ==
    /\ response # Nil
    /\ response.kind = "status"
    /\ lastFetchError # ""
    /\ lastUpdate = 1 /\ now = 2
    /\ "a" \in DOMAIN realMetrics
    /\ realMetrics["a"].series[<<nfType, nfType>>] = 1

-----------------------------------------------------------------------------
(* Properties of the registry of the collector *)

\* the vector holds, for this metric, a series whose label names are the
\* two injected ones and those of the metric, each with its own value, and
\* whose value is the one fetched
HoldsSeries(vecs, m) ==
    /\ m.Name \in DOMAIN vecs
    /\ LET vec == vecs[m.Name]
           names == vec.labelNames
       IN  /\ {names[i] : i \in 1..Len(names)}
                  = {OwnLabels[i] : i \in 1..Len(OwnLabels)} \cup DOMAIN m.Labels
           /\ \E lv \in DOMAIN vec.series :
                 /\ Len(lv) = Len(names)
                 /\ \A i \in 1..Len(names) :
                       lv[i] = IF names[i] \in DOMAIN m.Labels
                               THEN m.Labels[names[i]] ELSE nfType
                 /\ vec.series[lv] = m.Value

\* C21 as claimed: after a successful fetch the registry holds, for every
\* parsed metric of the body, gauge, counter or of no known kind, a series
\* under its name and kind with the injected and the upstream labels and the
\* value fetched.
C21_EveryParsedMetricHeld ==
    (response # Nil /\ response.kind = "ok" /\ ~panicked /\ lastFetchError = ""
         /\ lastUpdate = now)
        => LET parsed == parsePrometheusFormat(response.body).metrics
           IN  \A i \in 1..Len(parsed) :
                   IF parsed[i].Type = "counter"
                   THEN HoldsSeries(realCounters, parsed[i])
                   ELSE IF parsed[i].Type = "gauge"
                   THEN HoldsSeries(realMetrics, parsed[i])
                   ELSE HoldsSeries(realMetrics, parsed[i])
                            \/ HoldsSeries(realCounters, parsed[i])

-----------------------------------------------------------------------------
(* Properties of the health endpoint of the collector *)

\* seconds since the last successful fetch; none has succeeded when
\* lastUpdate is 0
SinceLastSuccess == (now - lastUpdate) * pollInterval

\* the report of the endpoint when healthy ends at the given age
HealthReport(healthyWithin) ==
    /\ handleHealthCheck = "healthy"
           => /\ lastFetchError = ""
              /\ lastUpdate # 0 /\ SinceLastSuccess <= healthyWithin
    /\ (lastUpdate = 0 \/ SinceLastSuccess > staleAfter)
           => handleHealthCheck = "unhealthy"
    /\ (lastFetchError # "" /\ lastUpdate # 0 /\ SinceLastSuccess <= staleAfter)
           => handleHealthCheck = "degraded"

-----------------------------------------------------------------------------
(* Properties of the coverage of the prober *)

\* C23 as claimed: after a sweep of the prober every running component of
\* its topology, with or without ports, has a check configuration, HTTP or
\* TCP, and an entry in the health cache.
C23_EveryRunningComponentTracked ==
    [][(hccTopology # Nil /\ HccSweep) =>
        \A n \in DOMAIN hccTopology.Components :
            hccTopology.Components[n].IsRunning =>
                /\ n \in DOMAIN checkConfigs
                /\ checkConfigs[n].CheckType \in {"http", "tcp"}
                /\ n \in DOMAIN healthCache']_vars

-----------------------------------------------------------------------------
(* Properties of the scrape configuration *)

\* how many job blocks of the file are the official entry of this collector
OfficialBlocks(file, name, coll) ==
    LET e == [JobName |-> name \o "-official",
              Target |-> [host |-> "localhost", port |-> coll.port],
              Source |-> SOURCE_OFFICIAL_ENDPOINT,
              ScrapeePath |-> "/metrics",
              Interval |-> "5s",
              ComponentID |-> name,
              nf_type |-> coll.nfType]
    IN  IF e \in DOMAIN file THEN file[e] ELSE 0

-----------------------------------------------------------------------------
(* Properties of startup *)

\* C25: when Start has returned the error of a failed discovery, no collector
\* has been started, no record is in the table, neither the sampler nor the
\* prober has been given a topology, and no scrape configuration was written.
C25_FailedDiscoveryStartsNothing ==
    pc = "failed to discover topology" =>
        /\ instances = <<>>
        /\ collectors = <<>>
        /\ running = <<>>
        /\ cmcTopology = Nil
        /\ hccTopology = Nil
        /\ lastTopology = Nil
        /\ configFile = <<>>

\* Start failed on discovery although containers were running
C25_Witness ==
    /\ pc = "failed to discover topology"
    /\ \A n \in OrchNames : containers[n] = "running"
    /\ changes = 0

-----------------------------------------------------------------------------
(* Properties of the records of the lifecycle table *)

\* C26: after any sequence of UpdateTopology and Stop calls the names with a
\* collector record are the names with a cancel func, and record and cancel
\* func of a name belong to one started collector, which is that name's, has
\* not been cancelled and is shared with no other name.
C26_RecordsMatchCancelFuncs ==
    /\ DOMAIN collectors = DOMAIN running
    /\ \A n \in DOMAIN collectors :
          /\ n \in DOMAIN running
          /\ collectors[n].id = running[n]
          /\ running[n] \in DOMAIN instances
          /\ instances[running[n]].componentName = n
          /\ instances[running[n]].cancelCalls = 0
    /\ \A n, m \in DOMAIN running : running[n] = running[m] => n = m

\* two live records after collectors were cancelled by a pass and by Stop
C26_Witness ==
    /\ Cardinality(DOMAIN collectors) = 2
    /\ cmLastCall = "UpdateTopology"
    /\ Len(instances) = 3
    /\ \E i \in DOMAIN instances : instances[i].cancelCalls = 1

\* C27: a step changes no collector in place. A name that has a record
\* before and after the step has the same record, the same cancel func and
\* the same uncancelled collector; and the function type, port and component
\* of a collector once started never change.
C27_Step ==
    /\ \A n \in DOMAIN collectors \cap DOMAIN collectors' :
          /\ collectors'[n] = collectors[n]
          /\ running'[n] = running[n]
          /\ instances'[running[n]] = instances[running[n]]
    /\ \A i \in DOMAIN instances :
          /\ i \in DOMAIN instances'
          /\ instances'[i].nfType = instances[i].nfType
          /\ instances'[i].port = instances[i].port
          /\ instances'[i].componentName = instances[i].componentName

C27_NoRecordMutatedInPlace == [][C27_Step]_vars

\* a pass kept one record while it deleted another and added a third
C27_Witness ==
    /\ cmLastCall = "UpdateTopology"
    /\ Len(instances) = 3
    /\ DOMAIN collectors = {"amf", "smf"}
    /\ collectors["amf"].id = 1
    /\ collectors["smf"].id = 3
    /\ instances[2].cancelCalls = 1

-----------------------------------------------------------------------------
(* Properties of change detection *)

\* the two topologies list the same names with the same running flags
SameNamesAndFlags(last, current) ==
    /\ DOMAIN current.Components = DOMAIN last.Components
    /\ \A n \in DOMAIN current.Components :
          current.Components[n].IsRunning = last.Components[n].IsRunning

\* C28: while every topology discovery can return has the names and running
\* flags of the topology reconciled last, whatever its other fields, a tick
\* starts and stops no collector, leaves registry and scrape configuration
\* as they are and hands no topology to the collector manager, the sampler or
\* the prober.
C28_OtherFieldsAreIgnored ==
    [][(/\ pc = "running" /\ pc' = "running"
        /\ containers' = containers
        /\ lastTopology # Nil
        /\ \A t \in DiscoverTopology(containers) : SameNamesAndFlags(lastTopology, t))
       => UNCHANGED <<collectors, running, instances, cmTopology, registry,
                      configFile, cmcTopology, hccTopology, checkConfigs,
                      lastTopology>>]_vars

\* smf has a collector, and discovery can now return its ports changed while
\* names and running flags are those reconciled last
C28_Witness ==
    /\ pc = "running"
    /\ lastTopology # Nil
    /\ "smf" \in DOMAIN collectors
    /\ changes > 0
    /\ \E t \in DiscoverTopology(containers) :
          /\ SameNamesAndFlags(lastTopology, t)
          /\ t.Components["smf"].Ports # lastTopology.Components["smf"].Ports

-----------------------------------------------------------------------------
(* Properties of shutdown *)

\* C30 as claimed: the shutdown of every collector whose context has been
\* cancelled completes, its server closed, even if a request in flight never
\* finishes.
C30_ShutdownCompletes ==
    \A i \in 1..MaxInstances :
        [](i \in DOMAIN instances /\ instances[i].cancelCalls > 0
              => <>(i \in DOMAIN instances /\ instances[i].server = "closed"))

-----------------------------------------------------------------------------
(* Properties of cancellation *)

\* C29 as claimed, for the calls in flight: once the root context is
\* cancelled, no upstream fetch, health probe or call of the sampler goes on
\* to end by its own timeout; the cancellation ends it.
C29_CancelAbortsCallsInFlight ==
    [][\A l \in LoopNames :
          (ctxDone /\ calls[l].pc = "inFlight" /\ calls'[l].pc # "inFlight")
              => calls'[l].err # "timeout"]_vars

-----------------------------------------------------------------------------
(* Properties of the extraction from a snapshot *)

\* the values one category of the stored sample must have, given whether the
\* snapshot has the category under a key the extractor knows
MemoryAsInSnapshot(raw, st) ==
    IF "memory_stats" \notin DOMAIN raw
    THEN st.MemoryUsage = 0 /\ st.MemoryLimit = 0 /\ st.MemoryPercent[1] = 0
    ELSE /\ st.MemoryUsage = 1
         /\ IF "limit" \in DOMAIN raw.memory_stats
            THEN st.MemoryLimit = 4 /\ st.MemoryPercent[1] * 1 = 25 * st.MemoryPercent[2]
            ELSE st.MemoryLimit = 0 /\ st.MemoryPercent[1] = 0

NetworkAsInSnapshot(raw, st) ==
    IF "networks" \notin DOMAIN raw
    THEN st.NetworkRxBytes = 0 /\ st.NetworkTxBytes = 0
    ELSE st.NetworkRxBytes = 1 + 3 /\ st.NetworkTxBytes = 2 + 4

BlockIOAsInSnapshot(raw, st) ==
    IF DOMAIN raw \cap {"blkio_stats", "blockio_stats", "blokio_stats"} = {}
    THEN st.BlockRead = 0 /\ st.BlockWrite = 0
    ELSE st.BlockRead = 3 + 2 /\ st.BlockWrite = 1

PIDsAsInSnapshot(raw, st) ==
    IF "pids_stats" \notin DOMAIN raw THEN st.PIDs = 0 ELSE st.PIDs = 5

C31_Step ==
    SweepStep =>
        \A n \in DOMAIN lastSample' :
            LET o == lastSample'[n]
            IN  /\ n \in DOMAIN statsCache'
                /\ statsCache'[n].Name = n
                /\ MemoryAsInSnapshot(o.rest, statsCache'[n])
                /\ NetworkAsInSnapshot(o.rest, statsCache'[n])
                /\ BlockIOAsInSnapshot(o.rest, statsCache'[n])
                /\ PIDsAsInSnapshot(o.rest, statsCache'[n])
                /\ IF o.kind = "noCpuStats"
                   THEN /\ statsCache'[n].CPUPercent[1] = 0
                        /\ (n \in DOMAIN lastCPUStats =>
                                lastCPUStats'[n] = lastCPUStats[n])
                   ELSE /\ lastCPUStats'[n].TotalUsage = o.total_usage
                        /\ lastCPUStats'[n].SystemUsage = o.system_cpu_usage

\* C31: whenever a sweep gets a snapshot of a component, it stores a sample
\* for it in which every category (CPU, memory, network, block I/O, PIDs)
\* the snapshot has holds the snapshot's values, and only a category that is
\* missing, or under a key the extractor does not know, is zero.
C31_CategoriesExtractedIndependently == [][C31_Step]_vars

\* a stored sample whose block I/O is zero because the snapshot had it under
\* another key, with memory, network and PIDs read, and one without cpu_stats
\* behind a sample that had them
C31_Witness ==
    \E n \in DOMAIN lastSample :
        /\ lastSample[n].kind = "noCpuStats"
        /\ "io_stats" \in DOMAIN lastSample[n].rest
        /\ statsCache[n].BlockRead = 0
        /\ statsCache[n].PIDs = 5
        /\ statsCache[n].NetworkRxBytes = 4
        /\ statsCache[n].MemoryPercent = <<100, 4>>
        /\ n \in DOMAIN lastCPUStats
        /\ lastCPUStats[n].TotalUsage = 2

-----------------------------------------------------------------------------
(* Properties of the isolation of a sweep *)

\* C32 as claimed, for the sampler: in every sweep each running component
\* for which the runtime had a snapshot is sampled, whatever failed for the
\* other components of that sweep.
C32_SweepIsolatesComponents ==
    [][SweepStep =>
          \A n \in DOMAIN lastTried' :
              lastTried'[n] \in {"sample", "noCpuStats"} => n \in DOMAIN lastSample']_vars

-----------------------------------------------------------------------------
(* Properties of the health summary *)

\* C33 as claimed: for every state of the cache, the empty one included, the
\* summary computed from it has total = the number of entries, up + down =
\* total, the mean of the response times as average, and every ratio a
\* well-defined number.
C33_SummaryWellDefined ==
    LET summary == generateHealthSummary(healthCache)
        ups == {n \in DOMAIN healthCache : healthCache[n].Status = HealthStatusUp}
    IN  /\ summary.total_components = Cardinality(DOMAIN healthCache)
        /\ summary.components_up = Cardinality(ups)
        /\ summary.components_up + summary.components_down = summary.total_components
        /\ summary.avg_response_time_ms[2] # 0
        /\ summary.avg_response_time_ms[1] * summary.total_components
               = SumResponseTimes(healthCache, DOMAIN healthCache)
                     * summary.avg_response_time_ms[2]
        /\ summary.health_percentage[2] # 0

-----------------------------------------------------------------------------
(* Properties of the ports in the CollectorManager table *)

\* C34: after any sequence of reconcile passes no two live collectors of the
\* table have the same assigned port, and ValidateConfiguration reports no
\* port conflict.
C34_LivePortsDistinct ==
    /\ \A n, m \in DOMAIN collectors :
          n # m => collectors[n].port # collectors[m].port
    /\ ValidateConfiguration(collectors) = {}

\* three collectors of two types are live, one of type amf started in a pass
\* after the smf collector had taken the port next to the base port of amf
C34_Witness ==
    /\ DOMAIN collectors = {"amf", "amf2", "smf"}
    /\ collectors["smf"].port = 9092
    /\ {collectors["amf"].port, collectors["amf2"].port} = {9091, 9093}

-----------------------------------------------------------------------------
(* Properties of the accesses to the shared maps *)

\* goroutine g writes a map that goroutine h is reading or writing
Overlap(g, h) ==
    /\ g # h
    /\ Writing(goroutines[g]) \cap
           (Reading(goroutines[h]) \cup Writing(goroutines[h])) # {}

\* C35 as claimed: a handler's read of the health cache or of the container
\* cache never overlaps a write of the prober or sampler loop to the same
\* map, and the prober never iterates its check-configuration table while
\* UpdateTopology on the orchestrator's goroutine is replacing it.
C35_NoOverlappingAccess ==
    /\ \A h \in Handlers : ~Overlap("prober", h) /\ ~Overlap("sampler", h)
    /\ ~Overlap("orchestrator", "prober")

-----------------------------------------------------------------------------
(* Properties of a port handed from a stopped collector to a new one *)

\* C36 as claimed: the server of a newly started collector does not try to
\* bind its port while the server of a collector stopped by the pass still
\* holds it, so that no collector is left registered with a server that
\* failed to bind a port of this process.
C36_NewServerBindsAfterRelease ==
    [][\A i \in DOMAIN instances :
          instances[i].server = "starting" /\ instances'[i].server # "starting"
              => ~PortHeld(i)]_vars

-----------------------------------------------------------------------------
(* Properties of the labels of the re-exposed series *)

\* the series lv of the vector vec of the metric called name gives every
\* label of the vector the value some sample of the upstream has for it
PairsNamesWithOwnValues(name, vec, lv) ==
    \E line \in BodyLines :
        LET sample == parseSample(line)
        IN  /\ sample.kind = "metric"
            /\ sample.metric.Name = name
            /\ DOMAIN sample.metric.Labels
                   = {vec.labelNames[i] : i \in 3..Len(vec.labelNames)}
            /\ \A i \in 3..Len(vec.labelNames) :
                   lv[i] = sample.metric.Labels[vec.labelNames[i]]

\* C37 as claimed: in every fetch cycle each re-exposed series pairs every
\* label name of its vector with that label's own value, whatever the order
\* in which the label map of the sample is ranged over.
C37_LabelValuesFollowLabelNames ==
    /\ \A name \in DOMAIN realMetrics :
          \A lv \in DOMAIN realMetrics[name].series :
              PairsNamesWithOwnValues(name, realMetrics[name], lv)
    /\ \A name \in DOMAIN realCounters :
          \A lv \in DOMAIN realCounters[name].series :
              PairsNamesWithOwnValues(name, realCounters[name], lv)

-----------------------------------------------------------------------------
(* Properties of Stop during WaitForHealthy *)

\* C38 as claimed: a Stop called while WaitForHealthy is in progress does
\* not wait for WaitForHealthy's timeout; it is never still waiting to get
\* in when WaitForHealthy gives up with its timeout error.
C38_StopDoesNotWaitForTimeout ==
    [][rcoCalls["Stop"].pc = "Lock" /\ rcoCalls["WaitForHealthy"].pc = "select"
           /\ rcoCalls'["WaitForHealthy"].pc = "returned"
         => rcoCalls'["WaitForHealthy"].err # "timeout waiting for healthy collectors"]_vars

-----------------------------------------------------------------------------
(* Properties of the ports of the RealCollectorManager *)

\* C39 as claimed: after InitializeCollectors no two collectors of the table
\* have the same listening port, whatever the topology.
C39_ListeningPortsDistinct ==
    \A n, m \in DOMAIN rcmCollectors :
        n # m => rcmCollectors[n].port # rcmCollectors[m].port

=============================================================================
